---- MODULE Spec2Model ----
(***************************************************************************)
(* A model of arff_csv: the ARFF parser (parser.py) and the ARFF writer    *)
(* (writer.py).  Text is modelled character by character: a Python str is  *)
(* a sequence of one-character strings, so that stripping, quote tracking, *)
(* comma splitting and quoting are computed as the code computes them.     *)
(***************************************************************************)
EXTENDS Integers, Sequences, FiniteSets, TLC

(***************************************************************************)
(* Bounds of the model.                                                    *)
(***************************************************************************)
\* the parser reads at most MaxLines physical lines of a file
MaxLines == 5
\* the texts drawn whole declare at most MaxAttrs attributes
MaxAttrs == 2
\* and, where the rows vary in number, have at most MaxRows data rows
MaxRows == 2

(***************************************************************************)
(* Python str primitives.                                                  *)
(***************************************************************************)
None == <<>>
Some(x) == <<x>>

LowerLetters == <<"a","b","c","d","e","f","g","h","i","j","k","l","m",
                  "n","o","p","q","r","s","t","u","v","w","x","y","z">>
UpperLetters == <<"A","B","C","D","E","F","G","H","I","J","K","L","M",
                  "N","O","P","Q","R","S","T","U","V","W","X","Y","Z">>

\* str.upper() on one character
UpperChar(c) ==
  IF \E i \in 1..26 : LowerLetters[i] = c
  THEN UpperLetters[CHOOSE i \in 1..26 : LowerLetters[i] = c]
  ELSE c

\* str.upper()
Upper(s) == [i \in 1..Len(s) |-> UpperChar(s[i])]

\* the whitespace str.strip() and str.split() remove
IsSpace(c) == c = " " \/ c = "\n"

IsQuote(c) == c = "'" \/ c = "\""

Digits == <<"0","1","2","3","4","5","6","7","8","9">>

IsDigit(c) == \E i \in 1..10 : Digits[i] = c

DigitVal(c) == (CHOOSE i \in 1..10 : Digits[i] = c) - 1

RECURSIVE LStrip(_)
LStrip(s) == IF s # <<>> /\ IsSpace(Head(s)) THEN LStrip(Tail(s)) ELSE s

RECURSIVE RStrip(_)
RStrip(s) ==
  IF s # <<>> /\ IsSpace(s[Len(s)]) THEN RStrip(SubSeq(s, 1, Len(s) - 1)) ELSE s

\* str.strip()
Strip(s) == RStrip(LStrip(s))

\* s[i:] with a 0-based Python index i
From(s, i) == SubSeq(s, i + 1, Len(s))

\* str.startswith(p)
StartsWith(s, p) == Len(s) >= Len(p) /\ SubSeq(s, 1, Len(p)) = p

\* c in s
Contains(s, c) == \E i \in 1..Len(s) : s[i] = c

\* s.find(c, start): the 0-based index of the first c at or after start, or -1
Find(s, c, start) ==
  IF \E i \in (start + 1)..Len(s) : s[i] = c
  THEN (CHOOSE i \in (start + 1)..Len(s) :
          s[i] = c /\ \A j \in (start + 1)..(i - 1) : s[j] # c) - 1
  ELSE -1

\* the 1-based position of the first whitespace character of s, or 0
FirstSpace(s) ==
  IF \E i \in 1..Len(s) : IsSpace(s[i])
  THEN CHOOSE i \in 1..Len(s) : IsSpace(s[i]) /\ \A j \in 1..(i - 1) : ~IsSpace(s[j])
  ELSE 0

\* s.split(None, 1) of a stripped, non-empty s: one or two parts
SplitFirstSpace(s) ==
  IF FirstSpace(s) = 0 THEN <<s>>
  ELSE <<SubSeq(s, 1, FirstSpace(s) - 1), LStrip(From(s, FirstSpace(s)))>>

RECURSIVE SplitComma(_)
\* s.split(",")
SplitComma(s) ==
  IF ~Contains(s, ",") THEN <<s>>
  ELSE <<SubSeq(s, 1, Find(s, ",", 0))>> \o SplitComma(From(s, Find(s, ",", 0) + 1))

RECURSIVE Join(_, _)
\* sep.join(parts)
Join(parts, sep) ==
  IF parts = <<>> THEN <<>>
  ELSE IF Len(parts) = 1 THEN parts[1]
  ELSE parts[1] \o sep \o Join(Tail(parts), sep)

RECURSIVE Replace(_, _, _)
\* s.replace(c, by) for a one-character c
Replace(s, c, by) ==
  IF s = <<>> THEN <<>>
  ELSE (IF Head(s) = c THEN by ELSE <<Head(s)>>) \o Replace(Tail(s), c, by)

RECURSIVE DecimalOf(_)
\* the value of a non-empty string of digits
DecimalOf(s) ==
  IF Len(s) = 1 THEN DigitVal(s[1])
  ELSE 10 * DecimalOf(SubSeq(s, 1, Len(s) - 1)) + DigitVal(s[Len(s)])

AllDigits(s) == s # <<>> /\ \A i \in 1..Len(s) : IsDigit(s[i])

\* int(s) succeeds: an optional sign and decimal digits
IsInt(s) ==
  IF s # <<>> /\ (Head(s) = "-" \/ Head(s) = "+") THEN AllDigits(Tail(s)) ELSE AllDigits(s)

\* int(s)
IntOf(s) ==
  IF Head(s) = "-" THEN 0 - DecimalOf(Tail(s))
  ELSE IF Head(s) = "+" THEN DecimalOf(Tail(s))
  ELSE DecimalOf(s)

(***************************************************************************)
(* parser.py: the attribute model and the pure helpers of ArffParser.      *)
(***************************************************************************)
\* the configured missing-value marker (ArffParser.__init__, ArffWriter.__init__)
missing_value == <<"?">>

\* the configured quote character (ArffWriter.__init__)
string_quote == "'"

\* @dataclass Attribute
Attribute(name, type, nominal_values, date_format) ==
  [name |-> name, type |-> type,
   nominal_values |-> nominal_values, date_format |-> date_format]

\* Attribute.is_numeric
is_numeric(attr) == attr.type \in {"NUMERIC", "REAL", "INTEGER"}

\* the outcome of a helper that may raise ArffParseError(message, _, line_content)
Ok(v) == [ok |-> TRUE, val |-> v, message |-> "", line_content |-> <<>>]
Raise(message, content) ==
  [ok |-> FALSE, val |-> <<>>, message |-> message, line_content |-> content]

KwRelation == <<"@","R","E","L","A","T","I","O","N">>
KwAttribute == <<"@","A","T","T","R","I","B","U","T","E">>
KwData == <<"@","D","A","T","A">>

\* the type keywords, as the writer writes them
W_NUMERIC == <<"N","U","M","E","R","I","C">>
W_REAL == <<"R","E","A","L">>
W_INTEGER == <<"I","N","T","E","G","E","R">>
W_STRING == <<"S","T","R","I","N","G">>
W_DATE == <<"D","A","T","E">>

Sp == <<" ">>

\* _RELATION_PATTERN / _ATTRIBUTE_PATTERN on a stripped line: keyword (any
\* case), whitespace, then group(1), the non-empty rest; None when no match
MatchDirective(line, kw) ==
  IF /\ Len(line) > Len(kw)
     /\ Upper(SubSeq(line, 1, Len(kw))) = kw
     /\ IsSpace(line[Len(kw) + 1])
     /\ LStrip(From(line, Len(kw))) # <<>>
  THEN Some(LStrip(From(line, Len(kw))))
  ELSE None

\* _DATA_PATTERN on a stripped line
MatchData(line) == Upper(line) = KwData

\* _COMMENT_PATTERN
MatchComment(line) == line # <<>> /\ Head(line) = "%"

\* _QUOTED_STRING: a quote, at least one character, a quote
MatchQuoted(s) == Len(s) >= 3 /\ IsQuote(s[1]) /\ IsQuote(s[Len(s)])

\* _NOMINAL_PATTERN
MatchNominal(s) == Len(s) >= 3 /\ s[1] = "{" /\ s[Len(s)] = "}"

\* _clean_string with the quoted pattern ^["\'](.*)["\']$
_clean_string_any(s) ==
  IF Len(Strip(s)) >= 2 /\ IsQuote(Strip(s)[1]) /\ IsQuote(Strip(s)[Len(Strip(s))])
  THEN SubSeq(Strip(s), 2, Len(Strip(s)) - 1)
  ELSE Strip(s)

\* ArffParser._clean_string
_clean_string(s) ==
  IF MatchQuoted(Strip(s)) THEN SubSeq(Strip(s), 2, Len(Strip(s)) - 1) ELSE Strip(s)

\* ArffParser._clean_value
_clean_value(value) ==
  IF Strip(value) = <<>> THEN missing_value
  ELSE IF /\ Len(Strip(value)) >= 2
          /\ IsQuote(Strip(value)[1])
          /\ Strip(value)[1] = Strip(value)[Len(Strip(value))]
       THEN SubSeq(Strip(value), 2, Len(Strip(value)) - 1)
       ELSE Strip(value)

\* the "value = current.strip(); if value: values.append(...)" step of
\* _parse_nominal_values
AddNominal(values, current) ==
  IF Strip(current) # <<>> THEN Append(values, _clean_string(Strip(current))) ELSE values

RECURSIVE NominalScan(_, _, _, _, _)
\* the character loop of _parse_nominal_values; quote_char None is ""
NominalScan(s, values, current, in_quotes, quote_char) ==
  IF s = <<>> THEN AddNominal(values, current)
  ELSE IF IsQuote(Head(s)) /\ ~in_quotes
       THEN NominalScan(Tail(s), values, current, TRUE, Head(s))
  ELSE IF Head(s) = quote_char /\ in_quotes
       THEN NominalScan(Tail(s), values, current, FALSE, "")
  ELSE IF Head(s) = "," /\ ~in_quotes
       THEN NominalScan(Tail(s), AddNominal(values, current), <<>>, in_quotes, quote_char)
  ELSE NominalScan(Tail(s), values, Append(current, Head(s)), in_quotes, quote_char)

\* ArffParser._parse_nominal_values
_parse_nominal_values(values_str) == NominalScan(values_str, <<>>, <<>>, FALSE, "")

\* ParseType with the values of a nominal type left out of the Attribute
ParseTypeNoValues(name, type_def, attr_def) ==
  IF Upper(type_def) \in {<<"N","U","M","E","R","I","C">>, <<"R","E","A","L">>}
  THEN Ok(Attribute(name, "NUMERIC", None, None))
  ELSE IF Upper(type_def) = <<"I","N","T","E","G","E","R">>
  THEN Ok(Attribute(name, "INTEGER", None, None))
  ELSE IF Upper(type_def) = <<"S","T","R","I","N","G">>
  THEN Ok(Attribute(name, "STRING", None, None))
  ELSE IF StartsWith(Upper(type_def), <<"D","A","T","E">>)
  THEN Ok(Attribute(name, "DATE", None,
            IF Len(type_def) > 4 THEN Some(_clean_string(Strip(From(type_def, 4))))
            ELSE None))
  ELSE IF MatchNominal(type_def)
  THEN Ok(Attribute(name, "NOMINAL", None, None))
  ELSE Raise("Unknown attribute type", attr_def)

\* the type part of _parse_attribute (from "type_def_upper = type_def.upper()")
ParseType(name, type_def, attr_def) ==
  IF Upper(type_def) \in {<<"N","U","M","E","R","I","C">>, <<"R","E","A","L">>}
  THEN Ok(Attribute(name, "NUMERIC", None, None))
  ELSE IF Upper(type_def) = <<"I","N","T","E","G","E","R">>
  THEN Ok(Attribute(name, "INTEGER", None, None))
  ELSE IF Upper(type_def) = <<"S","T","R","I","N","G">>
  THEN Ok(Attribute(name, "STRING", None, None))
  ELSE IF StartsWith(Upper(type_def), <<"D","A","T","E">>)
  THEN Ok(Attribute(name, "DATE", None,
            IF Len(type_def) > 4 THEN Some(_clean_string(Strip(From(type_def, 4))))
            ELSE None))
  ELSE IF MatchNominal(type_def)
  THEN Ok(Attribute(name, "NOMINAL",
            Some(_parse_nominal_values(SubSeq(type_def, 2, Len(type_def) - 1))), None))
  ELSE Raise("Unknown attribute type", attr_def)

\* the name part of _parse_attribute: <<name, type_def>> or an error
SplitNameType(attr_def) ==
  IF attr_def # <<>> /\ IsQuote(Head(attr_def))
  THEN IF Find(attr_def, Head(attr_def), 1) = -1
       THEN Raise("Unclosed quote in attribute name", attr_def)
       ELSE Ok(<<SubSeq(attr_def, 2, Find(attr_def, Head(attr_def), 1)),
                 Strip(From(attr_def, Find(attr_def, Head(attr_def), 1) + 1))>>)
  ELSE IF Len(SplitFirstSpace(attr_def)) < 2
       THEN Raise("Invalid attribute definition (missing type)", attr_def)
       ELSE Ok(<<SplitFirstSpace(attr_def)[1], Strip(SplitFirstSpace(attr_def)[2])>>)

\* ArffParser._parse_attribute
_parse_attribute(attr_def_raw) ==
  LET attr_def == Strip(attr_def_raw)
      nt == SplitNameType(attr_def)
  IN IF nt.ok THEN ParseType(nt.val[1], nt.val[2], attr_def) ELSE nt

RECURSIVE DenseScanNaive(_, _, _, _, _)
\* DenseScan splitting on every comma, quoted or not
DenseScanNaive(s, values, current, in_quotes, quote_char) ==
  IF s = <<>> THEN Append(values, _clean_value(current))
  ELSE IF Head(s) = ","
       THEN DenseScanNaive(Tail(s), Append(values, _clean_value(current)), <<>>,
                           in_quotes, quote_char)
  ELSE DenseScanNaive(Tail(s), values, Append(current, Head(s)), in_quotes, quote_char)

RECURSIVE DenseScan(_, _, _, _, _)
\* the character loop of _parse_data_row and its final append
DenseScan(s, values, current, in_quotes, quote_char) ==
  IF s = <<>> THEN Append(values, _clean_value(current))
  ELSE IF IsQuote(Head(s)) /\ ~in_quotes
       THEN DenseScan(Tail(s), values, Append(current, Head(s)), TRUE, Head(s))
  ELSE IF Head(s) = quote_char /\ in_quotes
       THEN DenseScan(Tail(s), values, Append(current, Head(s)), FALSE, "")
  ELSE IF Head(s) = "," /\ ~in_quotes
       THEN DenseScan(Tail(s), Append(values, _clean_value(current)), <<>>,
                      in_quotes, quote_char)
  ELSE DenseScan(Tail(s), values, Append(current, Head(s)), in_quotes, quote_char)

RECURSIVE SparsePairsNoLowerBound(_, _, _, _)
\* SparsePairs without the "idx < 0" test: a negative index counts from the end
SparsePairsNoLowerBound(pairs, values, num_attributes, line) ==
  IF pairs = <<>> THEN Ok(values)
  ELSE LET pair == Strip(Head(pairs))
           parts == SplitFirstSpace(pair)
       IN IF pair = <<>>
          THEN SparsePairsNoLowerBound(Tail(pairs), values, num_attributes, line)
          ELSE IF Len(parts) # 2 THEN Raise("Invalid sparse format", line)
          ELSE IF ~IsInt(parts[1]) THEN Raise("Invalid sparse index", line)
          ELSE IF IntOf(parts[1]) >= num_attributes
               THEN Raise("Sparse index out of range", line)
          ELSE SparsePairsNoLowerBound(Tail(pairs),
                 [values EXCEPT ![IF IntOf(parts[1]) < 0
                                  THEN num_attributes + IntOf(parts[1]) + 1
                                  ELSE IntOf(parts[1]) + 1] = _clean_value(parts[2])],
                 num_attributes, line)

RECURSIVE SparsePairs(_, _, _, _)
\* the "for pair in pairs" loop of _parse_sparse_row
SparsePairs(pairs, values, num_attributes, line) ==
  IF pairs = <<>> THEN Ok(values)
  ELSE LET pair == Strip(Head(pairs))
           parts == SplitFirstSpace(pair)
       IN IF pair = <<>> THEN SparsePairs(Tail(pairs), values, num_attributes, line)
          ELSE IF Len(parts) # 2 THEN Raise("Invalid sparse format", line)
          ELSE IF ~IsInt(parts[1]) THEN Raise("Invalid sparse index", line)
          ELSE IF IntOf(parts[1]) < 0 \/ IntOf(parts[1]) >= num_attributes
               THEN Raise("Sparse index out of range", line)
          ELSE SparsePairs(Tail(pairs),
                           [values EXCEPT ![IntOf(parts[1]) + 1] = _clean_value(parts[2])],
                           num_attributes, line)

\* _parse_sparse_row filling the unspecified positions with 0
_parse_sparse_row_zero(line, num_attributes) ==
  LET content == Strip(SubSeq(line, 2, Len(line) - 1))
      values == [i \in 1..num_attributes |-> <<"0">>]
  IN IF content = <<>> THEN Ok(values)
     ELSE SparsePairs(SplitComma(content), values, num_attributes, line)

\* ArffParser._parse_sparse_row
_parse_sparse_row(line, num_attributes) ==
  LET content == Strip(SubSeq(line, 2, Len(line) - 1))
      values == [i \in 1..num_attributes |-> missing_value]
  IN IF content = <<>> THEN Ok(values)
     ELSE SparsePairs(SplitComma(content), values, num_attributes, line)

\* ArffParser._parse_data_row
_parse_data_row(line, num_attributes) ==
  IF line # <<>> /\ Head(line) = "{" /\ line[Len(line)] = "}"
  THEN _parse_sparse_row(line, num_attributes)
  ELSE IF Len(DenseScan(line, <<>>, <<>>, FALSE, "")) # num_attributes
       THEN Raise("Wrong number of values", line)
       ELSE Ok(DenseScan(line, <<>>, <<>>, FALSE, ""))

(***************************************************************************)
(* The pandas operations _create_dataframe and the writer rely on.  A cell *)
(* is [k, v]: k is "na" (NaN / NaT), "str", "num" or "date"; v is text: the *)
(* characters of a str, the canonical decimal text of a number, the day    *)
(* digit of a date.                                                        *)
(***************************************************************************)
NaN == [k |-> "na", v |-> <<>>]
Str(s) == [k |-> "str", v |-> s]
Num(s) == [k |-> "num", v |-> s]
Date(d) == [k |-> "date", v |-> d]

\* pd.isna / pd.notna
isna(x) == x.k = "na"

DropSign(s) == IF s # <<>> /\ (Head(s) = "-" \/ Head(s) = "+") THEN Tail(s) ELSE s

IntPart(s) == IF Contains(s, ".") THEN SubSeq(s, 1, Find(s, ".", 0)) ELSE s

FracPart(s) == IF Contains(s, ".") THEN From(s, Find(s, ".", 0) + 1) ELSE <<>>

\* the text is a decimal literal: [sign] digits [. digits] or [sign] . digits
IsNumber(s) ==
  /\ \A i \in 1..Len(IntPart(DropSign(s))) : IsDigit(IntPart(DropSign(s))[i])
  /\ \A i \in 1..Len(FracPart(DropSign(s))) : IsDigit(FracPart(DropSign(s))[i])
  /\ IntPart(DropSign(s)) # <<>> \/ FracPart(DropSign(s)) # <<>>

RECURSIVE DropLeadingZeros(_)
DropLeadingZeros(s) ==
  IF Len(s) > 1 /\ Head(s) = "0" THEN DropLeadingZeros(Tail(s)) ELSE s

RECURSIVE DropTrailingZeros(_)
DropTrailingZeros(s) ==
  IF s # <<>> /\ s[Len(s)] = "0" THEN DropTrailingZeros(SubSeq(s, 1, Len(s) - 1)) ELSE s

\* the number a decimal literal denotes, as its canonical text: no sign on
\* zero, no leading zeros, no trailing fraction zeros, no bare point
NumberOf(s) ==
  LET ip == DropLeadingZeros(IF IntPart(DropSign(s)) = <<>> THEN <<"0">>
                             ELSE IntPart(DropSign(s)))
      fp == DropTrailingZeros(FracPart(DropSign(s)))
      mag == IF fp = <<>> THEN ip ELSE ip \o <<".">> \o fp
  IN IF Head(s) = "-" /\ mag # <<"0">> THEN <<"-">> \o mag ELSE mag

\* pd.to_numeric(errors="coerce") on one cell
to_numeric(x) ==
  IF x.k = "num" THEN x
  ELSE IF x.k = "str" /\ IsNumber(x.v) THEN Num(NumberOf(x.v))
  ELSE NaN

IsDay(c) == IsDigit(c) /\ c # "0"

\* the directives of the fields in which the dates of the model do not
\* vary, and the text of each field: year 1900, month 01, time 00:00:00
IsField(c) == c \in {"Y", "m", "H", "M", "S"}

FieldText(c) ==
  IF c = "Y" THEN <<"1","9","0","0">>
  ELSE IF c = "m" THEN <<"0","1">>
  ELSE <<"0","0">>

RECURSIVE StrptimeScan(_, _, _)
\* strptime: %d reads one day digit, the directive of another field reads
\* that field's text, any other character matches itself; a field the
\* format does not name keeps its default
StrptimeScan(text, format, day) ==
  IF format = <<>> THEN (IF text = <<>> THEN Some(Date(day)) ELSE None)
  ELSE IF StartsWith(format, <<"%", "d">>)
       THEN IF text # <<>> /\ IsDay(Head(text))
            THEN StrptimeScan(Tail(text), From(format, 2), <<Head(text)>>)
            ELSE None
  ELSE IF Len(format) >= 2 /\ Head(format) = "%" /\ IsField(format[2])
       THEN IF StartsWith(text, FieldText(format[2]))
            THEN StrptimeScan(From(text, Len(FieldText(format[2]))), From(format, 2), day)
            ELSE None
  ELSE IF text # <<>> /\ Head(text) = Head(format)
       THEN StrptimeScan(Tail(text), Tail(format), day)
       ELSE None

\* datetime.strptime(text, format): Some(date), or None for ValueError
strptime(text, format) == StrptimeScan(text, format, <<"1">>)

RECURSIVE strftime(_, _)
\* datetime.strftime(format)
strftime(date, format) ==
  IF format = <<>> THEN <<>>
  ELSE IF StartsWith(format, <<"%", "d">>) THEN date.v \o strftime(date, From(format, 2))
  ELSE IF Len(format) >= 2 /\ Head(format) = "%" /\ IsField(format[2])
       THEN FieldText(format[2]) \o strftime(date, From(format, 2))
  ELSE <<Head(format)>> \o strftime(date, Tail(format))

\* datetime.isoformat()
isoformat(date) == <<"T">> \o date.v

\* pd.to_datetime(column, format=...) on one cell; date_format is None for
\* the generic parse.  None stands for ValueError.
to_datetime(x, date_format) ==
  IF x.k \in {"na", "date"} THEN Some(x)
  ELSE IF x.k # "str" THEN None
  ELSE IF date_format # None THEN strptime(x.v, date_format[1])
  ELSE IF Len(x.v) = 2 /\ x.v[1] = "T" /\ IsDay(x.v[2]) THEN Some(Date(<<x.v[2]>>))
  ELSE None

\* list has no repeated element
Unique(seq) == \A i, j \in 1..Len(seq) : seq[i] = seq[j] => i = j

\* x in list
Member(x, seq) == \E i \in 1..Len(seq) : seq[i] = x

\* a DataFrame column
Column(name, dtype, categories, values) ==
  [name |-> name, dtype |-> dtype, categories |-> categories, values |-> values]

\* df[col].replace(self.missing_value, np.nan) on one raw token
ReplaceMissing(token) == IF token = missing_value THEN NaN ELSE Str(token)

\* the categories pd.Categorical infers when none are given: the distinct
\* present values, here in order of first appearance
RECURSIVE FirstSeen(_, _)
FirstSeen(cells, seen) ==
  IF cells = <<>> THEN seen
  ELSE FirstSeen(Tail(cells),
                 IF isna(Head(cells)) \/ Member(Strip(Head(cells).v), seen) THEN seen
                 ELSE Append(seen, Strip(Head(cells).v)))

\* ConvertColumn without the try/except around pd.to_datetime: a value
\* that is no date raises ValueError
ConvertColumnNoTry(attr, tokens) ==
  LET col == [i \in 1..Len(tokens) |-> ReplaceMissing(tokens[i])]
  IN IF is_numeric(attr)
     THEN [ok |-> TRUE,
           col |-> Column(attr.name, "float64", None,
                          [i \in 1..Len(col) |-> to_numeric(col[i])])]
     ELSE IF attr.type = "NOMINAL" /\ attr.nominal_values # None
                                   /\ attr.nominal_values[1] # <<>>
     THEN [ok |-> Unique(attr.nominal_values[1]),
           col |-> Column(attr.name, "category", attr.nominal_values,
                          [i \in 1..Len(col) |->
                             IF isna(col[i]) THEN col[i]
                             ELSE IF Member(Strip(col[i].v), attr.nominal_values[1])
                                  THEN Str(Strip(col[i].v))
                                  ELSE NaN])]
     ELSE IF attr.type = "DATE"
     THEN [ok |-> \A i \in 1..Len(col) : to_datetime(col[i], attr.date_format) # None,
           col |-> Column(attr.name, "datetime64", None,
                          [i \in 1..Len(col) |->
                             IF to_datetime(col[i], attr.date_format) # None
                             THEN to_datetime(col[i], attr.date_format)[1]
                             ELSE NaN])]
     ELSE [ok |-> TRUE, col |-> Column(attr.name, "object", None, col)]

\* ConvertColumn calling pd.Categorical without categories=: the domain is
\* taken from the data
ConvertColumnInferred(attr, tokens) ==
  LET col == [i \in 1..Len(tokens) |-> ReplaceMissing(tokens[i])]
  IN IF is_numeric(attr)
     THEN [ok |-> TRUE,
           col |-> Column(attr.name, "float64", None,
                          [i \in 1..Len(col) |-> to_numeric(col[i])])]
     ELSE IF attr.type = "NOMINAL" /\ attr.nominal_values # None
                                   /\ attr.nominal_values[1] # <<>>
     THEN [ok |-> TRUE,
           col |-> Column(attr.name, "category", Some(FirstSeen(col, <<>>)),
                          [i \in 1..Len(col) |->
                             IF isna(col[i]) THEN col[i] ELSE Str(Strip(col[i].v))])]
     ELSE IF attr.type = "DATE"
             /\ \A i \in 1..Len(col) : to_datetime(col[i], attr.date_format) # None
     THEN [ok |-> TRUE,
           col |-> Column(attr.name, "datetime64", None,
                          [i \in 1..Len(col) |-> to_datetime(col[i], attr.date_format)[1]])]
     ELSE [ok |-> TRUE, col |-> Column(attr.name, "object", None, col)]

\* ConvertColumn keeping a token that is no declared value
ConvertColumnKeepAll(attr, tokens) ==
  LET col == [i \in 1..Len(tokens) |-> ReplaceMissing(tokens[i])]
  IN IF is_numeric(attr)
     THEN [ok |-> TRUE,
           col |-> Column(attr.name, "float64", None,
                          [i \in 1..Len(col) |-> to_numeric(col[i])])]
     ELSE IF attr.type = "NOMINAL" /\ attr.nominal_values # None
                                   /\ attr.nominal_values[1] # <<>>
     THEN [ok |-> Unique(attr.nominal_values[1]),
           col |-> Column(attr.name, "category", attr.nominal_values,
                          [i \in 1..Len(col) |->
                             IF isna(col[i]) THEN col[i]
                             ELSE IF Member(Strip(col[i].v), attr.nominal_values[1])
                                  THEN Str(Strip(col[i].v))
                                  ELSE Str(Strip(col[i].v))])]
     ELSE IF attr.type = "DATE"
             /\ \A i \in 1..Len(col) : to_datetime(col[i], attr.date_format) # None
     THEN [ok |-> TRUE,
           col |-> Column(attr.name, "datetime64", None,
                          [i \in 1..Len(col) |-> to_datetime(col[i], attr.date_format)[1]])]
     ELSE [ok |-> TRUE, col |-> Column(attr.name, "object", None, col)]

\* the body of the "for attr in attributes" loop of _create_dataframe, for
\* the column of raw tokens of attr; ok is FALSE when pd.Categorical raises
\* ValueError (categories not unique)
ConvertColumn(attr, tokens) ==
  LET col == [i \in 1..Len(tokens) |-> ReplaceMissing(tokens[i])]
  IN IF is_numeric(attr)
     THEN [ok |-> TRUE,
           col |-> Column(attr.name, "float64", None,
                          [i \in 1..Len(col) |-> to_numeric(col[i])])]
     ELSE IF attr.type = "NOMINAL" /\ attr.nominal_values # None
                                   /\ attr.nominal_values[1] # <<>>
     THEN [ok |-> Unique(attr.nominal_values[1]),
           col |-> Column(attr.name, "category", attr.nominal_values,
                          [i \in 1..Len(col) |->
                             IF isna(col[i]) THEN col[i]
                             ELSE IF Member(Strip(col[i].v), attr.nominal_values[1])
                                  THEN Str(Strip(col[i].v))
                                  ELSE NaN])]
     ELSE IF attr.type = "DATE"
             /\ \A i \in 1..Len(col) : to_datetime(col[i], attr.date_format) # None
     THEN [ok |-> TRUE,
           col |-> Column(attr.name, "datetime64", None,
                          [i \in 1..Len(col) |-> to_datetime(col[i], attr.date_format)[1]])]
     ELSE [ok |-> TRUE, col |-> Column(attr.name, "object", None, col)]

\* ArffParser._create_dataframe: the DataFrame, or ok = FALSE for ValueError
_create_dataframe(rows, attrs) ==
  IF rows = <<>>
  THEN [ok |-> TRUE,
        df |-> [a \in 1..Len(attrs) |-> Column(attrs[a].name, "object", None, <<>>)]]
  ELSE [ok |-> \A a \in 1..Len(attrs) :
                 ConvertColumn(attrs[a], [r \in 1..Len(rows) |-> rows[r][a]]).ok,
        df |-> [a \in 1..Len(attrs) |->
                 ConvertColumn(attrs[a], [r \in 1..Len(rows) |-> rows[r][a]]).col]]

(***************************************************************************)
(* writer.py: the pure helpers of ArffWriter.  What a call writes to its   *)
(* file object is a str, line ends included.                               *)
(***************************************************************************)
NL == "\n"

\* a cell of a whole-number column
IntCell(s) == [k |-> "int", v |-> s]

\* str(value) of a cell: a float shows its point, a Timestamp its date
str(x) ==
  IF x.k = "na" THEN <<"n","a","n">>
  ELSE IF x.k = "num" THEN (IF IsInt(x.v) THEN x.v \o <<".", "0">> ELSE x.v)
  ELSE IF x.k = "date" THEN Replace(isoformat(x), "T", <<" ">>)
  ELSE x.v

\* the characters of the model in code-point order
Ascii ==
  <<NL, " ", "\"", "%", "'", "(", ")", "+", ",", "-", ".", "0", "1", "2", "3", "4", 
    "5", "6", "7", "8", "9", "?", "@", "A", "B", "C", "D", "E", "F", "G", 
    "H", "I", "J", "K", "L", "M", "N", "O", "P", "Q", "R", "S", "T", "U", 
    "V", "W", "X", "Y", "Z", "\\", "_", "a", "b", "c", "d", "e", "f", 
    "g", "h", "i", "j", "k", "l", "m", "n", "o", "p", "q", "r", "s", "t", 
    "u", "v", "w", "x", "y", "z", "{", "}">>

\* ord(c)
ord(c) == CHOOSE i \in 1..Len(Ascii) : Ascii[i] = c

RECURSIVE StrLess(_, _)
\* a < b on str
StrLess(a, b) ==
  IF b = <<>> THEN FALSE
  ELSE IF a = <<>> THEN TRUE
  ELSE IF Head(a) = Head(b) THEN StrLess(Tail(a), Tail(b))
  ELSE ord(Head(a)) < ord(Head(b))

RECURSIVE Insert(_, _)
\* x put in its place in a sorted list
Insert(x, list) ==
  IF list = <<>> THEN <<x>>
  ELSE IF StrLess(Head(list), x) THEN <<Head(list)>> \o Insert(x, Tail(list))
  ELSE <<x>> \o list

RECURSIVE sorted(_)
\* sorted(list) of a list of str
sorted(list) == IF list = <<>> THEN <<>> ELSE Insert(Head(list), sorted(Tail(list)))

RECURSIVE unique(_, _)
\* Series.dropna().unique(): the distinct present cells in order of first
\* appearance
unique(cells, seen) ==
  IF cells = <<>> THEN seen
  ELSE unique(Tail(cells),
              IF isna(Head(cells)) \/ Member(Head(cells), seen) THEN seen
              ELSE Append(seen, Head(cells)))

\* Series.nunique()
nunique(cells) == Len(unique(cells, <<>>))

\* an ArffData, and a DataFrame alone (a raw table): data is the list of
\* the table's columns
ArffData(relation_name, attrs, df, comment_list) ==
  [class |-> "ArffData", relation_name |-> relation_name, attributes |-> attrs,
   data |-> df, comments |-> comment_list]

DataFrame(df) ==
  [class |-> "DataFrame", relation_name |-> <<>>, attributes |-> <<>>,
   data |-> df, comments |-> <<>>]

\* ArffWriter._quote_if_needed
_quote_if_needed(value) ==
  IF value = <<>> THEN <<string_quote, string_quote>>
  ELSE IF \/ Contains(value, " ")
          \/ Contains(value, ",")
          \/ Contains(value, "%")
          \/ Contains(value, "{")
          \/ Contains(value, "}")
          \/ Contains(value, string_quote)
          \/ Contains(value, "\"")
       THEN <<string_quote>> \o Replace(value, string_quote, <<"\\", string_quote>>)
                             \o <<string_quote>>
       ELSE value

\* ArffWriter._format_value
_format_value(value, attr) ==
  IF isna(value) THEN missing_value
  ELSE IF is_numeric(attr)
  THEN (IF value.k \in {"int", "num"} THEN value.v ELSE str(value))
  ELSE IF attr.type = "DATE"
  THEN (IF value.k = "date"
        THEN (IF attr.date_format # None /\ attr.date_format[1] # <<>>
              THEN <<"'">> \o strftime(value, attr.date_format[1]) \o <<"'">>
              ELSE <<"'">> \o isoformat(value) \o <<"'">>)
        ELSE <<"'">> \o str(value) \o <<"'">>)
  ELSE _quote_if_needed(str(value))

\* the quoting of a relation or attribute name (writer.py 185-186, 193-194)
QuoteName(name) ==
  IF Contains(name, " ") \/ Contains(name, ",") \/ Contains(name, "%")
  THEN <<"'">> \o name \o <<"'">>
  ELSE name

\* ArffWriter._write_relation: what it writes
_write_relation(name) == KwRelation \o Sp \o QuoteName(name) \o <<NL, NL>>

\* ArffWriter._write_attribute: what it writes
_write_attribute(attr) ==
  KwAttribute \o Sp \o QuoteName(attr.name) \o Sp
    \o (IF attr.type = "NOMINAL" /\ attr.nominal_values # None
                                 /\ attr.nominal_values[1] # <<>>
        THEN <<"{">> \o Join([i \in 1..Len(attr.nominal_values[1]) |->
                                _quote_if_needed(attr.nominal_values[1][i])],
                             <<",", " ">>)
                     \o <<"}">>
        ELSE IF attr.type = "DATE"
        THEN (IF attr.date_format # None /\ attr.date_format[1] # <<>>
              THEN W_DATE \o <<" ", "'">> \o attr.date_format[1] \o <<"'">>
              ELSE W_DATE)
        ELSE IF attr.type = "STRING" THEN W_STRING
        ELSE IF attr.type = "INTEGER" THEN W_INTEGER
        ELSE W_NUMERIC)
    \o <<NL>>

\* len(df)
NumRows(df) == IF df = <<>> THEN 0 ELSE Len(df[1].values)

\* row[name] of row r of df.iterrows()
RowValue(df, r, name) == df[CHOOSE a \in 1..Len(df) : df[a].name = name].values[r]

\* ArffWriter._write_data_rows: what it writes
_write_data_rows(df, attrs) ==
  Join([r \in 1..NumRows(df) |->
          Join([a \in 1..Len(attrs) |-> _format_value(RowValue(df, r, attrs[a].name), attrs[a])],
               <<",">>) \o <<NL>>],
       <<>>)

\* the comment block both write paths begin with
WriteComments(comment_list) ==
  Join([i \in 1..Len(comment_list) |-> <<"%", " ">> \o comment_list[i] \o <<NL>>], <<>>)
    \o (IF comment_list # <<>> THEN <<NL>> ELSE <<>>)

\* ArffWriter._write_arff_data: what it writes
_write_arff_data(arff_data) ==
  WriteComments(arff_data.comments)
    \o _write_relation(arff_data.relation_name)
    \o Join([a \in 1..Len(arff_data.attributes) |-> _write_attribute(arff_data.attributes[a])],
            <<>>)
    \o <<NL>> \o KwData \o <<NL>>
    \o _write_data_rows(arff_data.data, arff_data.attributes)

\* the format _infer_attributes gives a datetime column
InferredDateFormat == <<"%","Y","-","%","m","-","%","d"," ","%","H",":","%","M",":","%","S">>

\* the inference with the distinct-value count tested before whole-number dtype
InferAttributeCountFirst(col, nominal_threshold) ==
  IF col.dtype = "category"
  THEN Attribute(col.name, "NOMINAL", Some(col.categories[1]), None)
  ELSE IF col.dtype = "datetime64"
  THEN Attribute(col.name, "DATE", None, Some(InferredDateFormat))
  ELSE IF col.dtype = "complex128"
  THEN Attribute(col.name, "STRING", None, None)
  ELSE IF col.dtype = "bool"
  THEN Attribute(col.name, "NOMINAL", Some(<<<<"F","a","l","s","e">>, <<"T","r","u","e">>>>), None)
  ELSE IF col.dtype = "int64"
          /\ ~(nominal_threshold # None /\ nunique(col.values) <= nominal_threshold[1])
  THEN Attribute(col.name, "INTEGER", None, None)
  ELSE IF col.dtype = "float64"
  THEN Attribute(col.name, "NUMERIC", None, None)
  ELSE IF /\ col.dtype \in {"object", "int64"}
          /\ nominal_threshold # None
          /\ nunique(col.values) <= nominal_threshold[1]
  THEN Attribute(col.name, "NOMINAL",
                 Some(sorted([i \in 1..nunique(col.values) |->
                                str(unique(col.values, <<>>)[i])])),
                 None)
  ELSE Attribute(col.name, "STRING", None, None)

\* ArffWriter._infer_attributes for one column
InferAttribute(col, nominal_threshold) ==
  IF col.dtype = "category"
  THEN Attribute(col.name, "NOMINAL", Some(col.categories[1]), None)
  ELSE IF col.dtype = "datetime64"
  THEN Attribute(col.name, "DATE", None, Some(InferredDateFormat))
  ELSE IF col.dtype = "complex128"
  THEN Attribute(col.name, "STRING", None, None)
  ELSE IF col.dtype = "bool"
  THEN Attribute(col.name, "NOMINAL", Some(<<<<"F","a","l","s","e">>, <<"T","r","u","e">>>>), None)
  ELSE IF col.dtype = "int64"
  THEN Attribute(col.name, "INTEGER", None, None)
  ELSE IF col.dtype = "float64"
  THEN Attribute(col.name, "NUMERIC", None, None)
  ELSE IF /\ col.dtype = "object"
          /\ nominal_threshold # None
          /\ nunique(col.values) <= nominal_threshold[1]
  THEN Attribute(col.name, "NOMINAL",
                 Some(sorted([i \in 1..nunique(col.values) |->
                                str(unique(col.values, <<>>)[i])])),
                 None)
  ELSE Attribute(col.name, "STRING", None, None)

\* ArffWriter._infer_attributes
_infer_attributes(df, nominal_threshold) ==
  [a \in 1..Len(df) |-> InferAttribute(df[a], nominal_threshold)]

\* ArffWriter._write_dataframe: what it writes
_write_dataframe(df, name, comment_list, nominal_threshold) ==
  (IF comment_list # None THEN WriteComments(comment_list[1]) ELSE <<>>)
    \o _write_relation(name)
    \o Join([a \in 1..Len(df) |->
               _write_attribute(_infer_attributes(df, nominal_threshold)[a])], <<>>)
    \o <<NL>> \o KwData \o <<NL>>
    \o _write_data_rows(df, _infer_attributes(df, nominal_threshold))

\* ArffWriter.write: what it writes to file_obj, or ok = FALSE for the
\* ValueError of a raw table without relation name
write(arff, name, comment_list, nominal_threshold) ==
  IF arff.class = "ArffData"
  THEN [ok |-> TRUE, out |-> _write_arff_data(arff)]
  ELSE IF name = None
  THEN [ok |-> FALSE, out |-> <<>>]
  ELSE [ok |-> TRUE, out |-> _write_dataframe(arff.data, name[1], comment_list,
                                               nominal_threshold)]

RECURSIVE Lines(_)
\* the lines that iterating a text file gives, each with its line end
Lines(s) ==
  IF s = <<>> THEN <<>>
  ELSE IF ~Contains(s, NL) THEN <<s>>
  ELSE <<SubSeq(s, 1, Find(s, NL, 0) + 1)>> \o Lines(From(s, Find(s, NL, 0) + 1))

(***************************************************************************)
(* The state: the locals of ArffParser.parse (parser.py 190-195), what the *)
(* call ends with, and the writer's side.                                  *)
(***************************************************************************)
VARIABLES
  relation_name,    \* None or Some(text)
  attributes,       \* list of Attribute
  data_rows,        \* list of lists of raw tokens
  comments,         \* list of text
  in_data_section,  \* BOOLEAN
  line_number,      \* physical lines read so far
  result,           \* "running", "ok" (ArffData returned) or the exception raised
  error,            \* [message, line_number, line_content] of an ArffParseError
  data,             \* the DataFrame of the returned ArffData
  text,             \* the lines of the text given to parse, when it is a
                    \* whole text (<<>> when the lines come as a stream)
  input,            \* what the text was built from, or the call the writer is given
  file,             \* the file object or destination file of a write call:
                    \* None when there is none, else Some(its content)
  written,          \* "idle", "ok" (the write call returned) or the exception raised
  arff_data         \* None, or Some(the ArffData a from_dataframe call returned)

parserVars == <<relation_name, attributes, data_rows, comments, in_data_section,
                line_number, result, error, data>>

vars == <<parserVars, text, input, file, written, arff_data>>

\* no write call is made
NoWriter == file = None /\ written = "idle"

\* no from_dataframe call is made
NoDataset == arff_data = None

NoError == [message |-> "", line_number |-> 0, line_content |-> <<>>]

\* parser.py 190-195
ParserInit ==
  /\ relation_name = None
  /\ attributes = <<>>
  /\ data_rows = <<>>
  /\ comments = <<>>
  /\ in_data_section = FALSE
  /\ line_number = 0
  /\ result = "running"
  /\ error = NoError
  /\ data = <<>>

\* raise ArffParseError(message, line_number, line_content) out of parse
RaiseParseError(message, content) ==
  /\ result' = "ArffParseError"
  /\ error' = [message |-> message, line_number |-> line_number', line_content |-> content]
  /\ UNCHANGED <<relation_name, attributes, data_rows, comments, in_data_section, data>>

\* the header branch refusing every line it does not know
ParseHeaderLineStrict(line) ==
  IF MatchData(line)
  THEN /\ in_data_section' = TRUE
       /\ UNCHANGED <<relation_name, attributes, data_rows, comments, result, error, data>>
  ELSE IF MatchDirective(line, KwRelation) # None
  THEN /\ relation_name' = Some(_clean_string(MatchDirective(line, KwRelation)[1]))
       /\ UNCHANGED <<attributes, data_rows, comments, in_data_section, result, error, data>>
  ELSE IF MatchDirective(line, KwAttribute) # None
  THEN LET attr == _parse_attribute(MatchDirective(line, KwAttribute)[1])
       IN IF attr.ok
          THEN /\ attributes' = Append(attributes, attr.val)
               /\ UNCHANGED <<relation_name, data_rows, comments, in_data_section,
                              result, error, data>>
          ELSE RaiseParseError(attr.message, attr.line_content)
  ELSE IF TRUE
  THEN RaiseParseError("Unknown directive", line)
  ELSE UNCHANGED <<relation_name, attributes, data_rows, comments, in_data_section,
                   result, error, data>>

\* the header branch of the loop body (parser.py 217-239)
ParseHeaderLine(line) ==
  IF MatchData(line)
  THEN /\ in_data_section' = TRUE
       /\ UNCHANGED <<relation_name, attributes, data_rows, comments, result, error, data>>
  ELSE IF MatchDirective(line, KwRelation) # None
  THEN /\ relation_name' = Some(_clean_string(MatchDirective(line, KwRelation)[1]))
       /\ UNCHANGED <<attributes, data_rows, comments, in_data_section, result, error, data>>
  ELSE IF MatchDirective(line, KwAttribute) # None
  THEN LET attr == _parse_attribute(MatchDirective(line, KwAttribute)[1])
       IN IF attr.ok
          THEN /\ attributes' = Append(attributes, attr.val)
               /\ UNCHANGED <<relation_name, data_rows, comments, in_data_section,
                              result, error, data>>
          ELSE RaiseParseError(attr.message, attr.line_content)
  ELSE IF Head(line) = "@"
  THEN RaiseParseError("Unknown directive", line)
  ELSE UNCHANGED <<relation_name, attributes, data_rows, comments, in_data_section,
                   result, error, data>>

\* the loop body with the directives honoured in the data section too
ParseLineHeaderFirst(raw) ==
  LET line == Strip(raw)
  IN /\ line_number' = line_number + 1
     /\ IF line = <<>>
        THEN UNCHANGED <<relation_name, attributes, data_rows, comments,
                         in_data_section, result, error, data>>
        ELSE IF MatchComment(line)
        THEN /\ comments' = Append(comments, Strip(Tail(line)))
             /\ UNCHANGED <<relation_name, attributes, data_rows, in_data_section,
                            result, error, data>>
        ELSE IF /\ in_data_section
                /\ MatchDirective(line, KwRelation) = None
                /\ MatchDirective(line, KwAttribute) = None
        THEN LET row == _parse_data_row(line, Len(attributes))
             IN IF row.ok
                THEN /\ data_rows' = Append(data_rows, row.val)
                     /\ UNCHANGED <<relation_name, attributes, comments,
                                    in_data_section, result, error, data>>
                ELSE RaiseParseError(row.message, row.line_content)
        ELSE ParseHeaderLine(line)

\* the body of "for line in file_obj" (parser.py 197-239) for one physical line
ParseLine(raw) ==
  LET line == Strip(raw)
  IN /\ line_number' = line_number + 1
     /\ IF line = <<>>
        THEN UNCHANGED <<relation_name, attributes, data_rows, comments,
                         in_data_section, result, error, data>>
        ELSE IF MatchComment(line)
        THEN /\ comments' = Append(comments, Strip(Tail(line)))
             /\ UNCHANGED <<relation_name, attributes, data_rows, in_data_section,
                            result, error, data>>
        ELSE IF in_data_section
        THEN LET row == _parse_data_row(line, Len(attributes))
             IN IF row.ok
                THEN /\ data_rows' = Append(data_rows, row.val)
                     /\ UNCHANGED <<relation_name, attributes, comments,
                                    in_data_section, result, error, data>>
                ELSE RaiseParseError(row.message, row.line_content)
        ELSE ParseHeaderLine(line)

\* Validate without the "if not attributes" test
ValidateNoAttributeTest ==
  IF relation_name = None
  THEN /\ result' = "MissingDataError"
       /\ UNCHANGED <<data>>
  ELSE /\ result' = "ok"
       /\ data' = _create_dataframe(data_rows, attributes).df

\* the end of parse (parser.py 241-256)
Validate ==
  IF relation_name = None
  THEN /\ result' = "MissingDataError"
       /\ UNCHANGED <<data>>
  ELSE IF attributes = <<>>
  THEN /\ result' = "MissingDataError"
       /\ UNCHANGED <<data>>
  ELSE IF _create_dataframe(data_rows, attributes).ok
  THEN /\ result' = "ok"
       /\ data' = _create_dataframe(data_rows, attributes).df
  ELSE /\ result' = "ValueError"
       /\ UNCHANGED <<data>>

(***************************************************************************)
(* The ARFF text offered to the parser.                                    *)
(***************************************************************************)
AttrLine(name, type) == KwAttribute \o Sp \o name \o Sp \o type

\* the attribute names a file declares, in the order it declares them
AttrNames == <<<<"a">>, <<"b">>, <<"c">>>>

\* type texts of the first attribute: NUMERIC, DATE '%d', {x, y}, FOO
FirstTypes ==
  {<<"N","U","M","E","R","I","C">>,
   <<"D","A","T","E"," ","'","%","d","'">>,
   <<"{","x",","," ","y","}">>,
   <<"F","O","O">>}

\* type texts of the second attribute: integer, {y, x}
SecondTypes ==
  {<<"i","n","t","e","g","e","r">>,
   <<"{","y",","," ","x","}">>}

\* a blank line, "% c", "@relation 'r s'", "@DATA", "@data", "@FOO x", "junk"
\* and the @ATTRIBUTE lines
HeaderLines ==
  {<<>>,
   <<"%"," ","c">>,
   <<"@","r","e","l","a","t","i","o","n"," ","'","r"," ","s","'">>,
   <<"@","D","A","T","A">>,
   <<"@","d","a","t","a">>,
   <<"@","F","O","O"," ","x">>,
   <<"j","u","n","k">>}
    \cup {AttrLine(AttrNames[1], t) : t \in FirstTypes}
    \cup {AttrLine(AttrNames[2], t) : t \in SecondTypes}

\* the data rows: 1   x   y   z   ?   '5'   1,x   ,y   'x,y',2   1,x,y
\* and the sparse rows {}, {0 1} and {1 x, 0 y}
DataLines ==
  {<<"1">>,
   <<"x">>,
   <<"y">>,
   <<"z">>,
   <<"?">>,
   <<"'","5","'">>,
   <<"1",",","x">>,
   <<",","y">>,
   <<"'","x",",","y","'",",","2">>,
   <<"1",",","x",",","y">>,
   <<"{","}">>,
   <<"{","0"," ","1","}">>,
   <<"{","1"," ","x",","," ","0"," ","y","}">>}

InputLines == HeaderLines \cup DataLines

\* a file declares its attributes under the names of AttrNames, in that
\* order: an @ATTRIBUTE line is offered only for the next name
Offered(raw) ==
  IF in_data_section \/ MatchDirective(Strip(raw), KwAttribute) = None THEN TRUE
  ELSE IF ~_parse_attribute(MatchDirective(Strip(raw), KwAttribute)[1]).ok THEN TRUE
  ELSE /\ Len(attributes) < Len(AttrNames)
       /\ _parse_attribute(MatchDirective(Strip(raw), KwAttribute)[1]).val.name
            = AttrNames[Len(attributes) + 1]

\* parse reads the next line of a stream of lines
ReadLine ==
  /\ result = "running"
  /\ text = <<>>
  /\ line_number < MaxLines
  /\ \E raw \in InputLines : Offered(raw) /\ ParseLine(raw)
  /\ UNCHANGED <<text, input, file, written, arff_data>>

\* parse reaches the end of the stream
EndOfInput ==
  /\ result = "running"
  /\ text = <<>>
  /\ Validate
  /\ UNCHANGED <<relation_name, attributes, data_rows, comments, in_data_section,
                 line_number, error, text, input, file, written, arff_data>>

\* parse reads the next line of the text
ReadNext ==
  /\ result = "running"
  /\ line_number < Len(text)
  /\ ParseLine(text[line_number + 1])
  /\ UNCHANGED <<text, input, file, written, arff_data>>

\* parse reaches the end of the text
EndOfText ==
  /\ result = "running"
  /\ text # <<>>
  /\ line_number = Len(text)
  /\ Validate
  /\ UNCHANGED <<relation_name, attributes, data_rows, comments, in_data_section,
                 line_number, error, text, input, file, written, arff_data>>

Init == ParserInit /\ NoWriter /\ NoDataset /\ text = <<>> /\ input = [family |-> "stream"]

Next == ReadLine \/ EndOfInput

\* ArffParser.parse on a stream of lines drawn from InputLines
Spec == Init /\ [][Next]_vars

\* ArffParser.parse on a whole text
NextText == ReadNext \/ EndOfText

(***************************************************************************)
(* Whole texts: a header that declares n attributes, then data rows.       *)
(***************************************************************************)
RelationLine == <<"@","R","E","L","A","T","I","O","N"," ","r">>

\* the header lines for the attribute types given
HeaderText(types) ==
  <<RelationLine>> \o [i \in 1..Len(types) |-> AttrLine(AttrNames[i], types[i])]
                   \o <<KwData>>

\* a header of n STRING attributes
StringHeader(n) == HeaderText([i \in 1..n |-> W_STRING])

DenseLine(tokens) == Join(tokens, <<",">>)

\* the tokens of dense rows: x   'x,y'   the empty token   ?
RowTokens ==
  {<<"x">>,
   <<"'","x",",","y","'">>,
   <<>>,
   <<"?">>}

\* dense rows of one to MaxAttrs + 1 tokens
DenseRows ==
  UNION {{DenseLine(tokens) : tokens \in [1..k -> RowTokens]} : k \in 1..(MaxAttrs + 1)}

\* the values of sparse pairs: x   'a b'   'x,y'   ''
SparseValues ==
  {<<"x">>,
   <<"'","a"," ","b","'">>,
   <<"'","x",",","y","'">>,
   <<"'","'">>}

\* the digits of an index
IndexText(i) == <<Digits[i + 1]>>

\* lists of (index, value) pairs with distinct indices in 0..n-1
PairLists(n) ==
  {<<>>}
    \cup {<<<<i, v>>>> : i \in 0..(n - 1), v \in SparseValues}
    \cup {ps \in {<<<<i, v>>, <<j, w>>>> : i, j \in 0..(n - 1), v \in SparseValues,
                                              w \in {<<"x">>, <<"'","x",",","y","'">>}} :
            ps[1][1] # ps[2][1]}

\* the sparse row {i1 v1, i2 v2, ...}
SparseRow(pairs) ==
  <<"{">> \o Join([k \in 1..Len(pairs) |-> IndexText(pairs[k][1]) \o Sp \o pairs[k][2]],
                  <<",", " ">>)
          \o <<"}">>

\* the dense row with each value at its index and the missing marker elsewhere
DenseOfPairs(pairs, n) ==
  DenseLine([i \in 1..n |->
               IF \E k \in 1..Len(pairs) : pairs[k][1] = i - 1
               THEN pairs[CHOOSE k \in 1..Len(pairs) : pairs[k][1] = i - 1][2]
               ELSE missing_value])

\* the comma-separated pieces of raw sparse rows:
\* 0 x   1 x   2 x   -1 x   +1 x   a x   0   (nothing)   1  'a b'
SparsePieces ==
  {<<"0"," ","x">>,
   <<"1"," ","x">>,
   <<"2"," ","x">>,
   <<"-","1"," ","x">>,
   <<"+","1"," ","x">>,
   <<"a"," ","x">>,
   <<"0">>,
   <<>>,
   <<"1"," "," ","'","a"," ","b","'">>}

\* raw sparse rows of one or two pieces
RawSparseRows ==
  {<<"{">> \o p \o <<"}">> : p \in SparsePieces}
    \cup {<<"{">> \o p \o <<",">> \o q \o <<"}">> : p, q \in SparsePieces}

\* the texts of SpecRows: one dense row; or a sparse row and the dense row
\* of the same pairs; or one raw sparse row
RowInputs ==
  {[family |-> "dense", n |-> n, row |-> r, pairs |-> <<>>] :
     n \in 0..MaxAttrs, r \in DenseRows}
    \cup UNION {{[family |-> "pairs", n |-> n, row |-> SparseRow(ps), pairs |-> ps] :
                   ps \in PairLists(n)} : n \in 0..MaxAttrs}
    \cup {[family |-> "sparse", n |-> n, row |-> r, pairs |-> <<>>] :
            n \in 0..MaxAttrs, r \in RawSparseRows}

RowText(in) ==
  StringHeader(in.n) \o <<in.row>>
    \o (IF in.family = "pairs" THEN <<DenseOfPairs(in.pairs, in.n)>> ELSE <<>>)

InitRows ==
  /\ ParserInit
  /\ NoDataset
  /\ NoWriter
  /\ input \in RowInputs
  /\ text = RowText(input)

\* ArffParser.parse on a header of STRING attributes and one or two data rows
SpecRows == InitRows /\ [][NextText]_vars

(***************************************************************************)
(* Claims about data rows, checked under SpecRows.                         *)
(***************************************************************************)
\* the parse has ended
Done == result # "running"

\* the data row of the text (the line after @DATA) has been read
RowRead == line_number >= input.n + 3

RECURSIVE CommasOutsideQuotes(_, _)
\* the number of commas of s that are not inside '...' or "..."; quote is
\* the open quote character, "" outside quotes
CommasOutsideQuotes(s, quote) ==
  IF s = <<>> THEN 0
  ELSE IF quote = ""
       THEN (IF Head(s) = "," THEN 1 ELSE 0)
              + CommasOutsideQuotes(Tail(s), IF IsQuote(Head(s)) THEN Head(s) ELSE "")
  ELSE CommasOutsideQuotes(Tail(s), IF Head(s) = quote THEN "" ELSE quote)

\* the number of tokens of the quote-aware comma split of a line
TokenCount(line) == CommasOutsideQuotes(line, "") + 1

\* C3: every row held by the parser, and every column of a returned
\* Dataset, has one value per declared attribute; a dense row whose
\* quote-aware comma split has another number of tokens ends the parse with
\* ArffParseError "Wrong number of values" and adds no row, and a dense row
\* with the right number of tokens is added whole.
C3_FieldCount ==
  /\ \A r \in 1..Len(data_rows) : Len(data_rows[r]) = Len(attributes)
  /\ result = "ok" =>
       /\ Len(data) = Len(attributes)
       /\ \A a \in 1..Len(data) : Len(data[a].values) = Len(data_rows)
  /\ (input.family = "dense" /\ RowRead /\ Strip(input.row) # <<>>) =>
       IF TokenCount(Strip(input.row)) # input.n
       THEN /\ result = "ArffParseError"
            /\ error.message = "Wrong number of values"
            /\ data_rows = <<>>
       ELSE /\ result \in {"running", "ok"}
            /\ Len(data_rows) = 1

\* C3 witness: the row 'x,y' against two attributes is one token and is
\* refused
C3_Witness ==
  /\ input.family = "dense"
  /\ input.n = 2
  /\ input.row = <<"'","x",",","y","'">>
  /\ result = "ArffParseError"
  /\ error.message = "Wrong number of values"

\* the sparse row and the dense row of the same pairs were both read, gave
\* the same values, and the positions no pair names hold the missing marker
SparseEqualsDense ==
  /\ result # "ArffParseError"
  /\ Len(data_rows) = 2
  /\ data_rows[1] = data_rows[2]
  /\ \A i \in 1..input.n :
       (\A k \in 1..Len(input.pairs) : input.pairs[k][1] # i - 1)
         => data_rows[1][i] = missing_value

\* C5 as stated: for any attribute count and any pairs with distinct
\* indices, the sparse row parses to the same values as the dense row.
C5_Original == (input.family = "pairs" /\ Done) => SparseEqualsDense

\* there is at least one attribute and no value contains a comma
PairsWithoutComma ==
  /\ input.n >= 1
  /\ \A k \in 1..Len(input.pairs) : ~Contains(input.pairs[k][2], ",")

\* C5 amended: with at least one attribute and values that contain no
\* comma, the sparse row parses to the same values as the dense row, the
\* unspecified positions being missing.
C5_SparseEqualsDense ==
  (input.family = "pairs" /\ Done /\ PairsWithoutComma) => SparseEqualsDense

\* C5 witness: one pair with a quoted value against two attributes
C5_Witness ==
  /\ input.family = "pairs"
  /\ input.n = 2
  /\ input.pairs = <<<<1, <<"'","a"," ","b","'">>>>>>
  /\ result = "ok"
  /\ data_rows = <<<<missing_value, <<"a"," ","b">>>>, <<missing_value, <<"a"," ","b">>>>>>

\* the comma-separated pieces of the body of a sparse row, each stripped
Pieces(line) ==
  IF Strip(SubSeq(line, 2, Len(line) - 1)) = <<>> THEN <<>>
  ELSE [i \in 1..Len(SplitComma(Strip(SubSeq(line, 2, Len(line) - 1)))) |->
          Strip(SplitComma(Strip(SubSeq(line, 2, Len(line) - 1)))[i])]

\* what is wrong with a piece: no value half, an index that is no integer,
\* an index outside 0..n-1, or nothing ("")
PieceFault(piece, n) ==
  IF FirstSpace(piece) = 0 THEN "Invalid sparse format"
  ELSE IF ~IsInt(SubSeq(piece, 1, FirstSpace(piece) - 1)) THEN "Invalid sparse index"
  ELSE IF \/ IntOf(SubSeq(piece, 1, FirstSpace(piece) - 1)) < 0
          \/ IntOf(SubSeq(piece, 1, FirstSpace(piece) - 1)) >= n
       THEN "Sparse index out of range"
  ELSE ""

\* the sparse row is accepted iff no piece among idx is faulty, and is
\* otherwise refused with the fault of the first faulty piece
SparseVerdict(pieces, idx, n) ==
  IF \A i \in idx : PieceFault(pieces[i], n) = ""
  THEN /\ result # "ArffParseError"
       /\ Len(data_rows) = 1
  ELSE /\ result = "ArffParseError"
       /\ error.message =
            PieceFault(pieces[CHOOSE i \in idx :
                                /\ PieceFault(pieces[i], n) # ""
                                /\ \A j \in idx : j < i => PieceFault(pieces[j], n) = ""], n)
       /\ data_rows = <<>>

\* C6 as stated: a sparse row is accepted only if every comma-separated
\* piece has an index and a value, the index is an integer and in range.
C6_Original ==
  (input.family = "sparse" /\ RowRead) =>
    SparseVerdict(Pieces(input.row), 1..Len(Pieces(input.row)), input.n)

\* C6 amended: blank pieces are skipped; a sparse row is accepted iff every
\* non-blank piece has an index and a value, the index is an integer and
\* 0 <= index < attribute count, and is otherwise refused with the message
\* of the first faulty piece, no row being added.
C6_SparseFaults ==
  (input.family = "sparse" /\ RowRead) =>
    SparseVerdict(Pieces(input.row),
                  {i \in 1..Len(Pieces(input.row)) : Pieces(input.row)[i] # <<>>},
                  input.n)

\* C6 witness: {1 x,-1 x} against two attributes is refused as out of range
C6_Witness ==
  /\ input.family = "sparse"
  /\ input.n = 2
  /\ input.row = <<"{","1"," ","x",",","-","1"," ","x","}">>
  /\ result = "ArffParseError"
  /\ error.message = "Sparse index out of range"

(***************************************************************************)
(* Claims about the two sections a text must have, checked under Spec.     *)
(***************************************************************************)
\* no @RELATION line, or no @ATTRIBUTE line, was read in the header
SectionMissing == relation_name = None \/ attributes = <<>>

CoerceTypes ==
  {<<"N","U","M","E","R","I","C">>,
   <<"i","n","t","e","g","e","r">>,
   <<"D","A","T","E"," ","'","%","d","'">>,
   <<"D","A","T","E">>}

\* its tokens: 1.50   x   the empty token   '5'   T5   0
CoerceTokens ==
  {<<"1",".","5","0">>,
   <<"x">>,
   <<>>,
   <<"'","5","'">>,
   <<"T","5">>,
   <<"0">>}

\* the tokens of the NUMERIC column beside it: 1 and the empty token
SecondTokens == {<<"1">>, <<>>}

\* lists of one to MaxRows elements of S
RowLists(S) == UNION {[1..k -> S] : k \in 1..MaxRows}

\* a column of type t beside a NUMERIC column, and rows of two tokens
CoerceInputs ==
  {[family |-> "coerce", type |-> t, rows |-> rs] :
     t \in CoerceTypes, rs \in RowLists(CoerceTokens \X SecondTokens)}

\* the declared value lists of the nominal column
DeclaredLists ==
  {<<<<"x">>, <<"y">>>>, <<<<"y">>, <<"x">>>>, <<<<"x">>, <<"y">>, <<"z">>>>,
   <<<<"z">>, <<"y">>, <<"x">>>>, <<<<"y">>>>, <<<<"x">>, <<"x">>>>}

\* its tokens
NominalTokens == {<<"x">>, <<"y">>, <<"z">>}

\* one nominal column, and zero to MaxRows rows of one token
NominalInputs ==
  {[family |-> "nominal", declared |-> d, rows |-> rs] :
     d \in DeclaredLists, rs \in {<<>>} \cup RowLists(NominalTokens)}

\* the type text {v1, v2, ...}
NominalType(declared) == <<"{">> \o Join(declared, <<",", " ">>) \o <<"}">>

CoerceText(in) ==
  IF in.family = "coerce"
  THEN HeaderText(<<in.type, W_NUMERIC>>)
         \o [r \in 1..Len(in.rows) |-> DenseLine(in.rows[r])]
  ELSE HeaderText(<<NominalType(in.declared)>>) \o in.rows

InitCoerce ==
  /\ ParserInit
  /\ NoDataset
  /\ NoWriter
  /\ input \in CoerceInputs \cup NominalInputs
  /\ text = CoerceText(input)

\* ArffParser.parse on a header and rows whose values are coerced
SpecCoerce == InitCoerce /\ [][NextText]_vars

(***************************************************************************)
(* Claims about type coercion, checked under SpecCoerce.                   *)
(***************************************************************************)
\* a token without the matching quotes around it
Unquoted(t) ==
  IF Len(t) >= 2 /\ IsQuote(t[1]) /\ t[1] = t[Len(t)] THEN SubSeq(t, 2, Len(t) - 1) ELSE t

\* the token of row r, column a of a "coerce" text
TokenAt(r, a) == Unquoted(input.rows[r][a])

\* the declared format of the coerced column, None for a bare DATE
FormatOf(type) == IF Len(type) > 4 THEN Some(<<"%", "d">>) ELSE None

\* every value of the date column is a date of the format, or empty
AllDates ==
  \A r \in 1..Len(input.rows) :
    TokenAt(r, 1) = <<>> \/ to_datetime(Str(TokenAt(r, 1)), FormatOf(input.type)) # None

\* C7: no value makes the parse fail: it returns a Dataset with one row per
\* data line, in which an empty token is missing, a token of a Numeric or
\* Integer column that is no number is missing, and a Date column with a
\* value that is no date of its format holds the raw text of every value.
C7_SilentCoercion ==
  input.family = "coerce" =>
    /\ result \in {"running", "ok"}
    /\ result = "ok" =>
         /\ \A a \in 1..2 : Len(data[a].values) = Len(input.rows)
         /\ \A r \in 1..Len(input.rows) :
              /\ isna(data[2].values[r]) <=> ~IsNumber(TokenAt(r, 2))
              /\ TokenAt(r, 1) = <<>> => isna(data[1].values[r])
              /\ attributes[1].type \in {"NUMERIC", "INTEGER"} =>
                   IF IsNumber(TokenAt(r, 1)) THEN data[1].values[r].k = "num"
                   ELSE isna(data[1].values[r])
              /\ (attributes[1].type = "DATE" /\ ~AllDates /\ TokenAt(r, 1) # <<>>) =>
                   data[1].values[r] = Str(TokenAt(r, 1))
              /\ (attributes[1].type = "DATE" /\ AllDates /\ TokenAt(r, 1) # <<>>) =>
                   data[1].values[r].k = "date"

\* C7 witness: DATE '%d' with the values 5 and x stays text, beside a
\* NUMERIC column with an empty token
C7_Witness ==
  /\ input.family = "coerce"
  /\ result = "ok"
  /\ attributes[1].type = "DATE"
  /\ attributes[1].date_format = Some(<<"%", "d">>)
  /\ data[1].values = <<Str(<<"5">>), Str(<<"x">>)>>
  /\ isna(data[2].values[1])

\* the column holds declared values only
OnlyDeclared == \A r \in 1..Len(input.rows) : Member(input.rows[r], input.declared)

\* the parse returned a Dataset whose nominal column has exactly the
\* declared domain, in declaration order
DeclaredDomain ==
  /\ result = "ok"
  /\ data[1].dtype = "category"
  /\ data[1].categories = Some(input.declared)

WrittenNames ==
  {<<"a">>,
   <<"'","b"," ","c","'">>}

\* the type texts: NUMERIC numeric Real INTEGER Integer STRING string DATE
\* date, DATE '%d', DATE "%d", date %d, DATEX, DATETIME, {x, y}, {x}, {},
\* FOO, NUMERICAL, STRINGS, INT, and no type at all
WrittenTypes ==
  {<<"N","U","M","E","R","I","C">>,
   <<"n","u","m","e","r","i","c">>,
   <<"R","e","a","l">>,
   <<"I","N","T","E","G","E","R">>,
   <<"I","n","t","e","g","e","r">>,
   <<"S","T","R","I","N","G">>,
   <<"s","t","r","i","n","g">>,
   <<"D","A","T","E">>,
   <<"d","a","t","e">>,
   <<"D","A","T","E"," ","'","%","d","'">>,
   <<"D","A","T","E"," ","\"","%","d","\"">>,
   <<"d","a","t","e"," ","%","d">>,
   <<"D","A","T","E","X">>,
   <<"D","A","T","E","T","I","M","E">>,
   <<"{","x",","," ","y","}">>,
   <<"{","x","}">>,
   <<"{","}">>,
   <<"F","O","O">>,
   <<"N","U","M","E","R","I","C","A","L">>,
   <<"S","T","R","I","N","G","S">>,
   <<"I","N","T">>,
   <<>>}

AttrInputs ==
  {[family |-> "attr", name |-> n, type |-> t] : n \in WrittenNames, t \in WrittenTypes}

AttrText(in) ==
  <<RelationLine,
    KwAttribute \o Sp \o in.name \o (IF in.type = <<>> THEN <<>> ELSE Sp \o in.type)>>

InitAttr ==
  /\ ParserInit
  /\ NoDataset
  /\ NoWriter
  /\ input \in AttrInputs
  /\ text = AttrText(input)

\* ArffParser.parse on a relation line and one attribute definition
SpecAttr == InitAttr /\ [][NextText]_vars

(***************************************************************************)
(* Claims about attribute definitions, checked under SpecAttr.             *)
(***************************************************************************)
\* the kind the claim gives a type text, "" when it is to be refused: the
\* words NUMERIC, REAL, INTEGER, STRING, DATE in any case, DATE followed by
\* a separate token, or a value list in braces
StatedKind(type) ==
  IF Upper(type) \in {W_NUMERIC, W_REAL} THEN "NUMERIC"
  ELSE IF Upper(type) = W_INTEGER THEN "INTEGER"
  ELSE IF Upper(type) = W_STRING THEN "STRING"
  ELSE IF Upper(type) = W_DATE THEN "DATE"
  ELSE IF Len(type) > 5 /\ Upper(SubSeq(type, 1, 4)) = W_DATE /\ IsSpace(type[5])
       THEN "DATE"
  ELSE IF Len(type) >= 3 /\ type[1] = "{" /\ type[Len(type)] = "}" THEN "NOMINAL"
  ELSE ""

\* the format the claim gives a DATE type text: the token after DATE,
\* without its quotes, or None
StatedFormat(type) ==
  IF Len(type) > 5 THEN Some(Unquoted(Strip(From(type, 4)))) ELSE None

\* C10 (the claim): a definition with only a name fails with "missing
\* type"; a type text is accepted, with the stated kind and format, iff it
\* is NUMERIC, REAL, INTEGER, STRING, DATE, DATE and a separate format
\* token, or a value list in braces; any other fails with "Unknown
\* attribute type".
C10_TypeGrammar ==
  (input.family = "attr" /\ line_number = 2) =>
    IF input.type = <<>>
    THEN /\ result = "ArffParseError"
         /\ error.message = "Invalid attribute definition (missing type)"
    ELSE IF StatedKind(input.type) = ""
    THEN /\ result = "ArffParseError"
         /\ error.message = "Unknown attribute type"
    ELSE /\ result = "running"
         /\ Len(attributes) = 1
         /\ attributes[1].type = StatedKind(input.type)
         /\ attributes[1].type = "DATE" => attributes[1].date_format = StatedFormat(input.type)

(***************************************************************************)
(* The write calls of ArffWriter.                                          *)
(***************************************************************************)
\* the call the writer is given has not been made yet
IsCall(method) ==
  /\ input.family \in {"write", "roundtrip"}
  /\ input.method = method
  /\ written = "idle"

\* ArffWriter.write(data, file_obj, relation_name, comments)
Call_write ==
  /\ IsCall("write")
  /\ LET w == write(input.data, input.relation_name, input.comments,
                    input.nominal_threshold)
     IN IF w.ok
        THEN /\ file' = Some(file[1] \o w.out)
             /\ written' = "ok"
        ELSE /\ written' = "ValueError"
             /\ UNCHANGED file
  /\ UNCHANGED <<parserVars, text, input, arff_data>>

\* ArffWriter.write_string(data, relation_name, comments): file is the str
\* returned
write_string ==
  /\ IsCall("write_string")
  /\ LET w == write(input.data, input.relation_name, input.comments,
                    input.nominal_threshold)
     IN IF w.ok
        THEN /\ file' = Some(w.out)
             /\ written' = "ok"
        ELSE /\ written' = "ValueError"
             /\ UNCHANGED file
  /\ UNCHANGED <<parserVars, text, input, arff_data>>

\* ArffWriter.write_file(data, filepath, relation_name, comments):
\* filepath.open("w") raises OSError, or makes the file empty before write
\* is called
write_file ==
  /\ IsCall("write_file")
  /\ IF input.os_error
     THEN /\ written' = "ArffWriteError"
          /\ UNCHANGED file
     ELSE LET w == write(input.data, input.relation_name, input.comments,
                         input.nominal_threshold)
          IN /\ file' = Some(w.out)
             /\ written' = IF w.ok THEN "ok" ELSE "ValueError"
  /\ UNCHANGED <<parserVars, text, input, arff_data>>

\* ArffParser.parse_string on the str that write_string returned
parse_string ==
  /\ input.family = "roundtrip"
  /\ written = "ok"
  /\ text = <<>>
  /\ text' = Lines(file[1])
  /\ UNCHANGED <<parserVars, input, file, written, arff_data>>

(***************************************************************************)
(* The tables given to the writer.                                         *)
(***************************************************************************)
\* the format of the Date attributes written
DayFormat == <<"%", "d">>

\* the values of the Nominal attributes written: x   a b
NominalDomain == <<<<"x">>, <<"a", " ", "b">>>>

\* text values: the empty string, x, the text of the missing marker, and
\* values with a space, a comma, a %, braces, a double quote and the quote
\* character
TextValues ==
  {<<>>,
   <<"?">>,
   <<"x">>,
   <<"a"," ","b">>,
   <<"x",",","y">>,
   <<"%">>,
   <<"{","x","}">>,
   <<"\"">>,
   <<"a","'","b">>}

\* the cells of a column of each kind
CellsOf(kind) ==
  IF kind = "NUMERIC" THEN {Num(<<"1",".","5">>), Num(<<"-","2">>), Num(<<"0">>)}
  ELSE IF kind = "INTEGER" THEN {IntCell(<<"1">>), IntCell(<<"0">>)}
  ELSE IF kind = "STRING" THEN {Str(v) : v \in TextValues}
  ELSE IF kind = "NOMINAL" THEN {Str(NominalDomain[1]), Str(NominalDomain[2])}
  ELSE {Date(<<"5">>), Date(<<"1">>)}

\* two cells of each kind, for the tables of several columns
FewCellsOf(kind) ==
  IF kind = "NUMERIC" THEN {Num(<<"1",".","5">>), Num(<<"-","2">>)}
  ELSE IF kind = "STRING" THEN {Str(<<"x",",","y">>), Str(<<>>)}
  ELSE CellsOf(kind)

Kinds == {"NUMERIC", "INTEGER", "STRING", "NOMINAL", "DATE"}

\* the attribute of a kind, as the parser would declare it
AttributeOf(name, kind) ==
  Attribute(name, kind,
            IF kind = "NOMINAL" THEN Some(NominalDomain) ELSE None,
            IF kind = "DATE" THEN Some(DayFormat) ELSE None)

\* the column of an attribute
DtypeOf(kind) ==
  IF kind = "NUMERIC" THEN "float64"
  ELSE IF kind = "INTEGER" THEN "int64"
  ELSE IF kind = "NOMINAL" THEN "category"
  ELSE IF kind = "DATE" THEN "datetime64"
  ELSE "object"

ColumnOf(name, kind, cells) ==
  Column(name, DtypeOf(kind),
         IF kind = "NOMINAL" THEN Some(NominalDomain) ELSE None, cells)

\* the Dataset of the kinds given, with one list of cells per attribute
Dataset(name, kinds, cells) ==
  ArffData(name,
           [a \in 1..Len(kinds) |-> AttributeOf(AttrNames[a], kinds[a])],
           [a \in 1..Len(kinds) |-> ColumnOf(AttrNames[a], kinds[a], cells[a])],
           <<>>)

\* Datasets without missing values: one attribute and up to MaxRows rows,
\* or up to MaxAttrs attributes and one row
Datasets ==
  UNION {{Dataset(<<"r">>, <<kind>>, <<cells>>) : cells \in [1..n -> CellsOf(kind)]} :
           kind \in Kinds, n \in 0..MaxRows}
    \cup {Dataset(<<"r"," ","s">>, <<kind>>, <<<<>>>>) : kind \in Kinds}
    \cup UNION {UNION {{Dataset(<<"r">>, kinds, [a \in 1..k |-> <<row[a]>>]) :
                          row \in {f \in [1..k -> UNION {FewCellsOf(kd) : kd \in Kinds}] :
                                     \A a \in 1..k : f[a] \in FewCellsOf(kinds[a])}} :
                         kinds \in [1..k -> Kinds]} : k \in 2..MaxAttrs}

\* a write_string call on a Dataset, whose result is then parsed
RoundTripInputs ==
  {[family |-> "roundtrip", method |-> "write_string", data |-> D,
    relation_name |-> None, comments |-> None, nominal_threshold |-> None,
    before |-> None, os_error |-> FALSE] : D \in Datasets}

InitRoundTrip ==
  /\ ParserInit
  /\ NoDataset
  /\ text = <<>>
  /\ input \in RoundTripInputs
  /\ file = input.before
  /\ written = "idle"

NextRoundTrip == write_string \/ parse_string \/ ReadNext \/ EndOfText

\* write_string on a Dataset, then parse_string on what it returned
SpecRoundTrip == InitRoundTrip /\ [][NextRoundTrip]_vars

(***************************************************************************)
(* Claims about the round trip, checked under SpecRoundTrip.               *)
(***************************************************************************)
\* the Dataset given to the writer
Given == input.data

\* two cells hold the same value: a whole number and the float equal to it
\* are the same value
SameCell(x, y) ==
  IF x.k \in {"int", "num"} /\ y.k \in {"int", "num"} THEN x.v = y.v ELSE x = y

\* two tables have the same columns, and the same rows in the same order
SameTable(df, ef) ==
  /\ Len(df) = Len(ef)
  /\ \A a \in 1..Len(df) :
       /\ df[a].name = ef[a].name
       /\ Len(df[a].values) = Len(ef[a].values)
       /\ \A r \in 1..Len(df[a].values) : SameCell(df[a].values[r], ef[a].values[r])

\* C1: for every Dataset without missing values whose attributes are
\* numeric, integer, string, nominal or date-with-format, parsing what the
\* writer wrote gives a Dataset with the same relation name, the same
\* attributes and the same rows
C1_RoundTrip ==
  (input.family = "roundtrip" /\ Done) =>
    /\ result = "ok"
    /\ relation_name = Some(Given.relation_name)
    /\ attributes = Given.attributes
    /\ SameTable(data, Given.data)

\* every attribute of the Dataset written is a String attribute
StringsOnly == \A a \in 1..Len(Given.attributes) : Given.attributes[a].type = "STRING"

\* C2: every text value of a String attribute, written into a data row, is
\* read back by the parser as exactly that text; the empty string is read
\* back as the empty string and not as a missing value
C2_StringValue ==
  (input.family = "roundtrip" /\ StringsOnly /\ Done) =>
    /\ result = "ok"
    /\ \A a \in 1..Len(Given.data) : \A r \in 1..Len(Given.data[a].values) :
         /\ ~isna(data[a].values[r])
         /\ data[a].values[r].v = Given.data[a].values[r].v

(***************************************************************************)
(* Write calls of every entry point, on raw tables and on Datasets.        *)
(***************************************************************************)
\* a raw table's column of each dtype, two rows each
FrameColumns ==
  {Column(<<"a">>, "float64", None, <<Num(<<"1",".","5">>), Num(<<"2">>)>>),
   Column(<<"a">>, "int64", None, <<IntCell(<<"1">>), IntCell(<<"2">>)>>),
   Column(<<"a">>, "object", None, <<Str(<<"x">>), Str(<<"a"," ","b">>)>>),
   Column(<<"a">>, "category", Some(<<<<"y">>, <<"x">>>>), <<Str(<<"x">>), Str(<<"y">>)>>),
   Column(<<"a">>, "datetime64", None, <<Date(<<"5">>), Date(<<"1">>)>>),
   Column(<<"a">>, "bool", None, <<Str(<<"T","r","u","e">>), Str(<<"F","a","l","s","e">>)>>),
   Column(<<"a">>, "complex128", None, <<Str(<<"(","1","+","2","j",")">>), Str(<<"(","1","+","2","j",")">>)>>)}

\* raw tables of no, one and two columns
Frames ==
  {DataFrame(<<c>>) : c \in FrameColumns}
    \cup {DataFrame(<<>>),
          DataFrame(<<Column(<<"a">>, "float64", None, <<Num(<<"1",".","5">>), Num(<<"2">>)>>),
                      Column(<<"b">>, "object", None, <<Str(<<"x",",","y">>), NaN>>)>>)}

\* what the file object or the destination file holds before the call
Old == <<"o","l","d",NL>>

Befores(method) ==
  IF method = "write_string" THEN {None}
  ELSE IF method = "write" THEN {Some(<<>>), Some(Old)}
  ELSE {None, Some(Old)}

\* the write calls: a raw table or a Dataset of one row, with or without
\* relation name, comments and nominal threshold; the destination of
\* write_file may fail to open
WriteInputs ==
  UNION {{[family |-> "write", method |-> m, data |-> t, relation_name |-> n,
           comments |-> c, nominal_threshold |-> th, before |-> b, os_error |-> e] :
            t \in Frames \cup UNION {{Dataset(<<"r">>, <<kind>>, <<<<cell>>>>) :
                                        cell \in FewCellsOf(kind)} : kind \in Kinds},
            n \in {None, Some(<<"r">>), Some(<<"r"," ","s">>)},
            c \in {None, Some(<<<<"c">>>>)},
            th \in {None, Some(1), Some(2)},
            b \in Befores(m),
            e \in IF m = "write_file" THEN BOOLEAN ELSE {FALSE}} :
          m \in {"write", "write_string", "write_file"}}

InitWrite ==
  /\ ParserInit
  /\ NoDataset
  /\ text = <<>>
  /\ input \in WriteInputs
  /\ file = input.before
  /\ written = "idle"

NextWrite == Call_write \/ write_string \/ write_file

\* one call of write, write_string or write_file
SpecWrite == InitWrite /\ [][NextWrite]_vars

(***************************************************************************)
(* Claims about the write calls, checked under SpecWrite.                  *)
(***************************************************************************)
\* the call is given a raw table and no relation name, and its destination
\* can be opened
NoRelationName ==
  /\ input.family = "write"
  /\ Given.class = "DataFrame"
  /\ input.relation_name = None
  /\ ~input.os_error

\* C9: a write call given a raw table and no relation name fails with
\* ValueError before any output is produced: nothing is written to the
\* file object, and the destination file of write_file is neither created
\* nor changed
C9_NoOutput ==
  (NoRelationName /\ written # "idle") =>
    /\ written = "ValueError"
    /\ file = input.before

(***************************************************************************)
(* write_string on Datasets of one attribute and no row: the names, value  *)
(* lists and formats an attribute may carry.                               *)
(***************************************************************************)
\* names: d   a b   a,b   a%   a'b   a"b
NameTexts ==
  {<<"d">>,
   <<"a"," ","b">>,
   <<"a",",","b">>,
   <<"a","%">>,
   <<"a","'","b">>,
   <<"a","\"","b">>}

\* the value lists of an attribute: none, the empty list, one value, two
ValueLists ==
  {None, Some(<<>>)}
    \cup {Some(<<v>>) : v \in NameTexts \cup {<<"{","x","}">>}}
    \cup {Some(<<<<"x">>, v>>) : v \in {<<"y">>, <<"a"," ","b">>}}

\* the formats of an attribute: none, the empty format, %d
Formats == {None, Some(<<>>), Some(DayFormat)}

AllKinds == {"NUMERIC", "REAL", "INTEGER", "STRING", "NOMINAL", "DATE"}

\* a Dataset with the one attribute given and no row
OneAttribute(name, attr) ==
  ArffData(name, <<attr>>, <<Column(attr.name, "object", None, <<>>)>>, <<>>)

\* the Datasets written: every relation name with one attribute, and every
\* attribute under one relation name
NamedDatasets ==
  {OneAttribute(n, Attribute(<<"a">>, "NUMERIC", None, None)) : n \in NameTexts}
    \cup {OneAttribute(<<"r">>, Attribute(n, kind, values, format)) :
            n \in NameTexts, kind \in AllKinds, values \in ValueLists, format \in Formats}

NameInputs ==
  {[family |-> "write", method |-> "write_string", data |-> D,
    relation_name |-> None, comments |-> None, nominal_threshold |-> None,
    before |-> None, os_error |-> FALSE] : D \in NamedDatasets}

InitNames ==
  /\ ParserInit
  /\ NoDataset
  /\ text = <<>>
  /\ input \in NameInputs
  /\ file = input.before
  /\ written = "idle"

\* write_string on a Dataset of one attribute
SpecNames == InitNames /\ [][write_string]_vars

(***************************************************************************)
(* Claims about the header lines written, checked under SpecNames.         *)
(***************************************************************************)
\* the lines written
WrittenLines == Lines(file[1])

\* the @ATTRIBUTE line of the one attribute, without its line end
AttributeLine == SubSeq(WrittenLines[3], 1, Len(WrittenLines[3]) - 1)

\* the text holds a space, a comma, a % or a quote character
HasSpecial(s) ==
  \/ Contains(s, " ")
  \/ Contains(s, ",")
  \/ Contains(s, "%")
  \/ Contains(s, "'")
  \/ Contains(s, "\"")

\* a name as the claim has it written
NameAsClaimed(name) == IF HasSpecial(name) THEN <<"'">> \o name \o <<"'">> ELSE name

\* a nominal value as the claim has it written: quoted, its quote
\* characters escaped, under the conditions of a name
ValueAsClaimed(v) ==
  IF HasSpecial(v)
  THEN <<string_quote>> \o Replace(v, string_quote, <<"\\", string_quote>>)
                        \o <<string_quote>>
  ELSE v

\* the attribute written is Nominal with at least one value
HasValues(attr) ==
  attr.type = "NOMINAL" /\ attr.nominal_values # None /\ attr.nominal_values[1] # <<>>

\* C11: a relation name or attribute name is written wrapped in quotes
\* whenever it holds a space, a comma, a % or a quote character, and bare
\* otherwise; a nominal value is quoted under the same conditions
C11_NameQuoting ==
  (Given.class = "ArffData" /\ written = "ok") =>
    /\ WrittenLines[1] = KwRelation \o Sp \o NameAsClaimed(Given.relation_name) \o <<NL>>
    /\ StartsWith(AttributeLine,
                  KwAttribute \o Sp \o NameAsClaimed(Given.attributes[1].name) \o Sp)
    /\ HasValues(Given.attributes[1]) =>
         AttributeLine =
           KwAttribute \o Sp \o NameAsClaimed(Given.attributes[1].name) \o Sp \o <<"{">>
             \o Join([i \in 1..Len(Given.attributes[1].nominal_values[1]) |->
                        ValueAsClaimed(Given.attributes[1].nominal_values[1][i])],
                     <<",", " ">>)
             \o <<"}">>

\* the values of an attribute's value list, none when it has no list
ValuesOf(attr) == IF attr.nominal_values = None THEN <<>> ELSE attr.nominal_values[1]

\* an attribute carries a format: a text that is not empty
HasFormat(attr) == attr.date_format # None /\ attr.date_format[1] # <<>>

\* the type-spec the claim gives an attribute, by its kind alone
TypeSpecAsClaimed(attr) ==
  IF attr.type = "NOMINAL"
  THEN <<"{">> \o Join([i \in 1..Len(ValuesOf(attr)) |-> _quote_if_needed(ValuesOf(attr)[i])],
                       <<",", " ">>)
               \o <<"}">>
  ELSE IF attr.type = "DATE"
  THEN (IF HasFormat(attr) THEN W_DATE \o <<" ", "'">> \o attr.date_format[1] \o <<"'">>
        ELSE W_DATE)
  ELSE IF attr.type = "STRING" THEN W_STRING
  ELSE IF attr.type = "INTEGER" THEN W_INTEGER
  ELSE W_NUMERIC

\* C12: for every attribute, whatever its name, value list or format, the
\* type-spec on its @ATTRIBUTE line is determined by its kind alone:
\* Nominal gives the brace-enclosed list of its values, each quote-escaped;
\* Date gives DATE, or DATE '<format>' when a format is present; String
\* gives STRING; Integer gives INTEGER; Numeric and Real give NUMERIC
C12_TypeSpec ==
  (Given.class = "ArffData" /\ written = "ok") =>
    AttributeLine = KwAttribute \o Sp \o QuoteName(Given.attributes[1].name) \o Sp
                      \o TypeSpecAsClaimed(Given.attributes[1])

(***************************************************************************)
(* writer.py: ArffWriter.from_dataframe.                                   *)
(***************************************************************************)
\* "x or []", "x or {}" for an optional list or dict
OrEmpty(x) == IF x = None THEN <<>> ELSE x[1]

\* a dict is the list of its <<key, value>> pairs, the keys distinct
InDict(key, dict) == \E i \in 1..Len(dict) : dict[i][1] = key

\* dict[key]
Lookup(key, dict) == dict[CHOOSE i \in 1..Len(dict) : dict[i][1] = key][2]

\* pd.api.types.is_complex_dtype, is_integer_dtype, is_numeric_dtype (which
\* holds of bool), is_datetime64_any_dtype
is_complex_dtype(dtype) == dtype = "complex128"

is_integer_dtype(dtype) == dtype = "int64"

is_numeric_dtype(dtype) == dtype \in {"int64", "float64", "complex128", "bool"}

is_datetime64_any_dtype(dtype) == dtype = "datetime64"

\* the text of float("inf"); the table given to from_dataframe may hold it
Infinity == <<"i", "n", "f">>

\* int(x) raises OverflowError: x is an infinite float
Overflows(x) == x.k = "num" /\ DropSign(x.v) = Infinity

\* convert_to_str of from_dataframe (writer.py 404-411), for a cell on
\* which int(x) does not raise
convert_to_str(x) ==
  IF isna(x) THEN x
  ELSE IF x.k = "int" THEN Str(x.v)
  ELSE IF x.k = "num" /\ IsInt(x.v) THEN Str(x.v)
  ELSE Str(str(x))

\* df[col].apply(convert_to_str)
Converted(cells) == [i \in 1..Len(cells) |-> convert_to_str(cells[i])]

\* from_dataframe's nominal_values of a column that is not categorical
\* (writer.py 413-414)
FromNominalValues(col) ==
  sorted([i \in 1..nunique(Converted(col.values)) |->
            str(unique(Converted(col.values), <<>>)[i])])

\* the loop body of from_dataframe with the string test before the date test
FromAttributeStringFirst(col, nominal_columns, string_columns, date_columns) ==
  IF is_complex_dtype(col.dtype) \/ Member(col.name, string_columns)
  THEN Attribute(col.name, "STRING", None, None)
  ELSE IF InDict(col.name, date_columns)
  THEN Attribute(col.name, "DATE", None, Some(Lookup(col.name, date_columns)))
  ELSE IF Member(col.name, nominal_columns) \/ col.dtype = "category"
  THEN (IF col.dtype = "category"
        THEN Attribute(col.name, "NOMINAL", Some(col.categories[1]), None)
        ELSE Attribute(col.name, "NOMINAL", Some(FromNominalValues(col)), None))
  ELSE IF is_integer_dtype(col.dtype)
  THEN Attribute(col.name, "INTEGER", None, None)
  ELSE IF is_numeric_dtype(col.dtype)
  THEN Attribute(col.name, "NUMERIC", None, None)
  ELSE IF is_datetime64_any_dtype(col.dtype)
  THEN Attribute(col.name, "DATE", None, Some(InferredDateFormat))
  ELSE Attribute(col.name, "STRING", None, None)

\* the loop body of from_dataframe (writer.py 385-431): the attribute of a
\* column
FromAttribute(col, nominal_columns, string_columns, date_columns) ==
  IF InDict(col.name, date_columns)
  THEN Attribute(col.name, "DATE", None, Some(Lookup(col.name, date_columns)))
  ELSE IF is_complex_dtype(col.dtype) \/ Member(col.name, string_columns)
  THEN Attribute(col.name, "STRING", None, None)
  ELSE IF Member(col.name, nominal_columns) \/ col.dtype = "category"
  THEN (IF col.dtype = "category"
        THEN Attribute(col.name, "NOMINAL", Some(col.categories[1]), None)
        ELSE Attribute(col.name, "NOMINAL", Some(FromNominalValues(col)), None))
  ELSE IF is_integer_dtype(col.dtype)
  THEN Attribute(col.name, "INTEGER", None, None)
  ELSE IF is_numeric_dtype(col.dtype)
  THEN Attribute(col.name, "NUMERIC", None, None)
  ELSE IF is_datetime64_any_dtype(col.dtype)
  THEN Attribute(col.name, "DATE", None, Some(InferredDateFormat))
  ELSE Attribute(col.name, "STRING", None, None)

\* the column from_dataframe returns: df[col] is replaced by its converted
\* values where the column is forced to Nominal (writer.py 413)
FromColumn(col, nominal_columns, string_columns, date_columns) ==
  IF /\ ~InDict(col.name, date_columns)
     /\ ~(is_complex_dtype(col.dtype) \/ Member(col.name, string_columns))
     /\ Member(col.name, nominal_columns)
     /\ col.dtype # "category"
  THEN Column(col.name, "object", None, Converted(col.values))
  ELSE col

\* df[col].apply(convert_to_str) raises OverflowError: the column is forced
\* to Nominal and int(x) raises on one of its cells
ApplyRaises(col, nominal_columns, string_columns, date_columns) ==
  /\ FromColumn(col, nominal_columns, string_columns, date_columns) # col
  /\ \E r \in 1..Len(col.values) : Overflows(col.values[r])

\* the outcome of a call that raised
Raised(exception) ==
  [class |-> exception, relation_name |-> <<>>, attributes |-> <<>>,
   data |-> <<>>, comments |-> <<>>]

\* ArffWriter.from_dataframe: the ArffData returned, or the exception
from_dataframe(df, name, nominal_columns, string_columns, date_columns) ==
  IF \E a \in 1..Len(df) :
       ApplyRaises(df[a], OrEmpty(nominal_columns), OrEmpty(string_columns),
                   OrEmpty(date_columns))
  THEN Raised("OverflowError")
  ELSE
  ArffData(name,
           [a \in 1..Len(df) |->
              FromAttribute(df[a], OrEmpty(nominal_columns), OrEmpty(string_columns),
                            OrEmpty(date_columns))],
           [a \in 1..Len(df) |->
              FromColumn(df[a], OrEmpty(nominal_columns), OrEmpty(string_columns),
                         OrEmpty(date_columns))],
           <<>>)

\* a call of from_dataframe
Call_from_dataframe ==
  /\ input.family = "from"
  /\ arff_data = None
  /\ arff_data' = Some(from_dataframe(input.df, input.relation_name,
                                      input.nominal_columns, input.string_columns,
                                      input.date_columns))
  /\ UNCHANGED <<parserVars, text, input, file, written>>

(***************************************************************************)
(* Calls of from_dataframe: a raw table and the three override lists.      *)
(***************************************************************************)
\* columns whose values repeat, are whole or not, or are missing
MixedColumns ==
  {Column(<<"a">>, "int64", None, <<IntCell(<<"2">>), IntCell(<<"1">>), IntCell(<<"2">>)>>),
   Column(<<"a">>, "float64", None, <<Num(<<"2">>), Num(<<"1",".","5">>), NaN>>),
   Column(<<"a">>, "object", None, <<Str(<<"y">>), NaN, Str(<<"x">>), Str(<<"y">>)>>),
   Column(<<"a">>, "object", None, <<NaN, NaN>>),
   Column(<<"a">>, "float64", None, <<Num(<<"1",".","5">>), Num(Infinity)>>)}

\* the raw tables given to from_dataframe: one column, or two
FromFrames ==
  {<<c>> : c \in FrameColumns \cup MixedColumns}
    \cup {<<Column(<<"a">>, "float64", None, <<Num(<<"1",".","5">>), Num(<<"2">>)>>),
            Column(<<"b">>, "object", None, <<Str(<<"x",",","y">>), NaN>>)>>}

\* an override list: absent, or naming a, b, or both
NameLists == {None, Some(<<<<"a">>>>), Some(<<<<"b">>>>), Some(<<<<"b">>, <<"a">>>>)}

\* the date overrides: absent, or a format for a, b, or both
DateDicts ==
  {None,
   Some(<<<<<<"a">>, DayFormat>>>>),
   Some(<<<<<<"b">>, DayFormat>>>>),
   Some(<<<<<<"a">>, DayFormat>>, <<<<"b">>, InferredDateFormat>>>>)}

FromInputs ==
  {[family |-> "from", df |-> df, relation_name |-> <<"r">>,
    nominal_columns |-> n, string_columns |-> s, date_columns |-> d] :
     df \in FromFrames, n \in NameLists, s \in NameLists, d \in DateDicts}

InitFrom ==
  /\ ParserInit
  /\ NoWriter
  /\ text = <<>>
  /\ input \in FromInputs
  /\ arff_data = None

\* one call of from_dataframe
SpecFrom == InitFrom /\ [][Call_from_dataframe]_vars

(***************************************************************************)
(* Claims about from_dataframe, checked under SpecFrom.                    *)
(***************************************************************************)
\* what the call returned, and that it returned an ArffData
Returned == arff_data[1]

HasReturned == arff_data # None /\ Returned.class = "ArffData"

\* the column is named in an override list
Named(col, list) == list # None /\ Member(col.name, list[1])

\* the column has a date override
Dated(col) == input.date_columns # None /\ InDict(col.name, input.date_columns[1])

\* the rules of the claim in their order, each with the kind it gives
KindRules(col) ==
  <<[applies |-> Dated(col), kind |-> "DATE"],
    [applies |-> col.dtype = "complex128" \/ Named(col, input.string_columns),
     kind |-> "STRING"],
    [applies |-> Named(col, input.nominal_columns) \/ col.dtype = "category",
     kind |-> "NOMINAL"],
    [applies |-> is_integer_dtype(col.dtype), kind |-> "INTEGER"],
    [applies |-> is_numeric_dtype(col.dtype), kind |-> "NUMERIC"],
    [applies |-> is_datetime64_any_dtype(col.dtype), kind |-> "DATE"],
    [applies |-> TRUE, kind |-> "STRING"]>>

\* the first rule that applies to the column
FirstRule(col) ==
  CHOOSE i \in 1..Len(KindRules(col)) :
    KindRules(col)[i].applies /\ \A j \in 1..(i - 1) : ~KindRules(col)[j].applies

\* C13: from_dataframe gives each column the kind of the first rule that
\* applies, in the order date override, complex dtype or string override,
\* nominal override or categorical, integer dtype, other numeric dtype,
\* datetime dtype, String; a date override gives the format it names
C13_KindPrecedence ==
  HasReturned =>
    /\ Len(Returned.attributes) = Len(input.df)
    /\ \A a \in 1..Len(input.df) :
         /\ Returned.attributes[a].name = input.df[a].name
         /\ Returned.attributes[a].type = KindRules(input.df[a])[FirstRule(input.df[a])].kind
         /\ FirstRule(input.df[a]) = 1 =>
              Returned.attributes[a].date_format
                = Some(Lookup(input.df[a].name, input.date_columns[1]))

\* a column named in all three override lists is returned as a Date
\* attribute with the format given
C13_Witness ==
  /\ HasReturned
  /\ Len(input.df) = 1
  /\ Named(input.df[1], input.string_columns)
  /\ Named(input.df[1], input.nominal_columns)
  /\ Dated(input.df[1])
  /\ Returned.attributes[1].type = "DATE"
  /\ Returned.attributes[1].date_format = Some(DayFormat)

\* the column is forced to Nominal: it is named in nominal_columns, no
\* earlier rule applies to it, and it is not categorical
ForcedNominal(col) == FirstRule(col) = 3 /\ col.dtype # "category"

\* the text the claim gives a present value: an integer without decimal
\* point, a whole-valued float as the integer, anything else by str
NormalText(x) ==
  IF x.k = "int" THEN x.v
  ELSE IF x.k = "num" /\ IsInt(x.v) THEN x.v
  ELSE str(x)

\* the list is sorted and has no duplicate
StrictlySorted(list) == \A i \in 1..(Len(list) - 1) : StrLess(list[i], list[i + 1])

\* C14: when from_dataframe forces a non-categorical column to Nominal,
\* nominal_values is the sorted list of the distinct normalised texts of
\* the present values, without duplicate and without an entry for missing,
\* and every present value of the returned column is its normalised text
\* and a member of nominal_values
C14_ForcedNominal ==
  arff_data # None =>
    /\ Returned.class = "ArffData"
    /\ \A a \in 1..Len(input.df) :
      ForcedNominal(input.df[a]) =>
        /\ Returned.attributes[a].nominal_values # None
        /\ StrictlySorted(Returned.attributes[a].nominal_values[1])
        /\ \A i \in 1..Len(Returned.attributes[a].nominal_values[1]) :
             \E r \in 1..Len(input.df[a].values) :
               /\ ~isna(input.df[a].values[r])
               /\ NormalText(input.df[a].values[r])
                    = Returned.attributes[a].nominal_values[1][i]
        /\ Len(Returned.data[a].values) = Len(input.df[a].values)
        /\ \A r \in 1..Len(input.df[a].values) :
             IF isna(input.df[a].values[r])
             THEN isna(Returned.data[a].values[r])
             ELSE /\ Returned.data[a].values[r] = Str(NormalText(input.df[a].values[r]))
                  /\ Member(Returned.data[a].values[r].v,
                            Returned.attributes[a].nominal_values[1])

(***************************************************************************)
(* write_string on raw tables of one column: the writer infers the schema. *)
(***************************************************************************)
\* a column of dtype object that holds the whole number 1 and the text 1
MixedObject ==
  Column(<<"a">>, "object", None, <<IntCell(<<"1">>), Str(<<"1">>), Str(<<"x">>)>>)

\* the whole-number column named category
CategoryColumn ==
  Column(<<"c","a","t","e","g","o","r","y">>, "int64", None,
         <<IntCell(<<"1">>), IntCell(<<"2">>), IntCell(<<"3">>),
           IntCell(<<"1">>), IntCell(<<"2">>), IntCell(<<"3">>)>>)

\* the columns whose attribute is inferred: every dtype, values that repeat
\* or are missing, and values of several types under dtype object
InferColumns ==
  FrameColumns \cup {c \in MixedColumns : \A r \in 1..Len(c.values) : ~Overflows(c.values[r])}
               \cup {MixedObject, CategoryColumn}

\* ArffWriter.DEFAULT_NOMINAL_THRESHOLD
DEFAULT_NOMINAL_THRESHOLD == 20

\* the thresholds of the writer: not configured, 1 to MaxRows + 1, or 20
Thresholds == {None} \cup {Some(n) : n \in 1..(MaxRows + 1) \cup {DEFAULT_NOMINAL_THRESHOLD}}

InferInputs ==
  {[family |-> "write", method |-> "write_string", data |-> DataFrame(<<c>>),
    relation_name |-> Some(<<"r">>), comments |-> cm, nominal_threshold |-> th,
    before |-> None, os_error |-> FALSE] :
     c \in InferColumns, cm \in {None, Some(<<<<"c">>>>)}, th \in Thresholds}

InitInfer ==
  /\ ParserInit
  /\ NoDataset
  /\ text = <<>>
  /\ input \in InferInputs
  /\ file = input.before
  /\ written = "idle"

\* write_string on a raw table of one column
SpecInfer == InitInfer /\ [][write_string]_vars

(***************************************************************************)
(* Claims about schema inference, checked under SpecInfer.                 *)
(***************************************************************************)
\* the column of the raw table given
GivenColumn == Given.data[1]

\* the @ATTRIBUTE line written for the column: it follows the comment
\* block, the @RELATION line and a blank line
InferredLine ==
  WrittenLines[(IF input.comments = None THEN 0 ELSE Len(input.comments[1]) + 1) + 3]

\* the texts of the present values of a column, each once
DistinctTexts(col) ==
  unique([r \in 1..Len(col.values) |->
            IF isna(col.values[r]) THEN NaN ELSE Str(str(col.values[r]))],
         <<>>)

\* the same texts, sorted
SortedDistinctTexts(col) ==
  sorted([i \in 1..Len(DistinctTexts(col)) |-> DistinctTexts(col)[i].v])

\* the inference rules of the claim in their order, each with the
\* attribute it gives the column
InferRules(col) ==
  <<[applies |-> col.dtype = "category",
     gives |-> Attribute(col.name, "NOMINAL", col.categories, None)],
    [applies |-> col.dtype = "datetime64",
     gives |-> Attribute(col.name, "DATE", None, Some(InferredDateFormat))],
    [applies |-> col.dtype = "complex128",
     gives |-> Attribute(col.name, "STRING", None, None)],
    [applies |-> col.dtype = "bool",
     gives |-> Attribute(col.name, "NOMINAL", Some(<<<<"F","a","l","s","e">>, <<"T","r","u","e">>>>), None)],
    [applies |-> col.dtype = "int64",
     gives |-> Attribute(col.name, "INTEGER", None, None)],
    [applies |-> col.dtype = "float64",
     gives |-> Attribute(col.name, "NUMERIC", None, None)],
    [applies |-> /\ col.dtype = "object"
                 /\ input.nominal_threshold # None
                 /\ nunique(col.values) <= input.nominal_threshold[1],
     gives |-> Attribute(col.name, "NOMINAL",
                         Some(SortedDistinctTexts(col)), None)],
    [applies |-> TRUE,
     gives |-> Attribute(col.name, "STRING", None, None)]>>

\* the attribute the first rule that applies gives the column
InferredAsClaimed(col) ==
  InferRules(col)[CHOOSE i \in 1..Len(InferRules(col)) :
                    InferRules(col)[i].applies
                      /\ \A j \in 1..(i - 1) : ~InferRules(col)[j].applies].gives

\* C15: given a raw table, the writer decides each column's kind by the
\* first matching rule: categorical gives Nominal with the domain's values
\* in stored order, datetime gives Date with format %Y-%m-%d %H:%M:%S,
\* complex gives String, boolean gives Nominal [False, True], whole-number
\* gives Integer, other numeric gives Numeric, textual gives Nominal with
\* the sorted, pairwise distinct values as text when a threshold is
\* configured and the distinct-value count is at most the threshold, and
\* String otherwise
C15_InferenceRules ==
  (Given.class = "DataFrame" /\ written = "ok") =>
    InferredLine = _write_attribute(InferredAsClaimed(GivenColumn))

\* the writer is given the whole-number column named category and has
\* written it
CategoryWritten ==
  /\ Given.class = "DataFrame"
  /\ GivenColumn = CategoryColumn
  /\ written = "ok"

FaultyHeaderLines ==
  {<<"@","F","O","O"," ","x">>,
   <<"@","A","T","T","R","I","B","U","T","E"," ","'","a"," ","S","T","R","I","N","G">>,
   <<"@","A","T","T","R","I","B","U","T","E"," ","a">>,
   <<"@","A","T","T","R","I","B","U","T","E"," ","a"," ","F","O","O">>,
   <<"@","A","T","T","R","I","B","U","T","E"," ","a"," ","S","T","R","I","N","G">>}

\* data rows for one attribute: two values, a sparse pair without value, a
\* sparse index that is out of range, negative, or no number, and a sound row
FaultyDataRows ==
  {<<"x",",","y">>, <<"{","0","}">>, <<"{","5"," ","x","}">>, <<"{","-","1"," ","x","}">>, <<"{","z"," ","x","}">>, <<"x">>}

\* what precedes the relation line: nothing, a blank line, a comment line
Preambles == {<<>>, <<<<>>>>, <<<<"%"," ","c">>>>, <<<<" ">>, <<"%">>>>}

\* a line as it is, or with whitespace around it
Paddings(line) == {line, <<" ">> \o line \o <<" ", NL>>}

ErrorInputs ==
  {[family |-> "error", at |-> Len(pre) + 2,
    lines |-> pre \o <<RelationLine, raw>>] :
     pre \in Preambles, raw \in UNION {Paddings(l) : l \in FaultyHeaderLines}}
    \cup {[family |-> "error", at |-> Len(pre) + 4,
           lines |-> pre \o StringHeader(1) \o <<raw>>] :
            pre \in Preambles, raw \in UNION {Paddings(l) : l \in FaultyDataRows}}

InitErrors ==
  /\ ParserInit
  /\ NoDataset
  /\ NoWriter
  /\ input \in ErrorInputs
  /\ text = input.lines

\* ArffParser.parse on a text whose last line may be faulty
SpecErrors == InitErrors /\ [][NextText]_vars

(***************************************************************************)
(* Claims about parse errors, checked under SpecErrors.                    *)
(***************************************************************************)
\* the last physical line of the text, the one that may be faulty
OffendingLine == text[input.at]

\* C17: every ArffParseError raised while parsing (unknown directive,
\* unclosed quote, missing type, unknown attribute type, wrong number of
\* values, any sparse-row fault) carries the 1-based position of the
\* offending physical line, blank and comment lines counted, as line_number
\* and that whole line with surrounding whitespace stripped as line_content
C17_ErrorPosition ==
  (input.family = "error" /\ result = "ArffParseError") =>
    /\ error.line_number = input.at
    /\ error.line_content = Strip(OffendingLine)

(***************************************************************************)
(* Claims about a header cut off before @DATA, checked under Spec.         *)
(***************************************************************************)
\* the parse has ended on a text with an @ATTRIBUTE line and no @DATA line
HeaderCutOff == Done /\ attributes # <<>> /\ ~in_data_section

\* C18: every ARFF text that has at least one @ATTRIBUTE line but no @DATA
\* line is rejected at end of input with MissingDataError: it is neither
\* parsed successfully nor reported with another error kind.  (A parse
\* ended by a faulty header line is not counted against the claim.)
C18_HeaderCutOff ==
  HeaderCutOff => result \in {"MissingDataError", "ArffParseError"}

(***************************************************************************)
(* Whole texts whose relation line varies: a name bare, quoted, made of    *)
(* quote characters only, or absent.                                       *)
(***************************************************************************)
\* what follows the @RELATION keyword
RelationTexts ==
  {<<>>, <<" ">>,
   <<" ">> \o <<"r">>,
   <<" ">> \o <<"'","r"," ","s","'">>,
   <<" ">> \o <<"'","'">>,
   <<" ">> \o <<"'"," ","'">>,
   <<" ">> \o <<"\"">>,
   <<" ">> \o <<"'">>,
   <<" ">> \o <<"'","'"," ">>,
   <<" ">> \o <<"\"","r","'">>,
   <<" ">> \o <<" "," ","r">>,
   <<" ">> \o <<"x","'">>}

\* the lines after the relation line: attribute definitions and @DATA,
\* each present or not, and a data row
RelationTails ==
  {<<>>, <<KwData>>, <<AttrLine(AttrNames[1], W_STRING)>>,
   <<AttrLine(AttrNames[1], W_STRING), KwData>>,
   <<AttrLine(AttrNames[1], W_STRING), KwData, <<"x">>>>}

RelationInputs ==
  {[family |-> "relation", name |-> n, lines |-> <<KwRelation \o n>> \o t] :
     n \in RelationTexts, t \in RelationTails}

InitRelation ==
  /\ ParserInit
  /\ NoDataset
  /\ NoWriter
  /\ input \in RelationInputs
  /\ text = input.lines

\* ArffParser.parse on a text that opens with a relation line
SpecRelation == InitRelation /\ [][NextText]_vars

(***************************************************************************)
(* Claims about the Dataset returned, checked under SpecRelation.          *)
(***************************************************************************)
\* C19: whenever parse returns a Dataset, its relation name is a non-empty
\* text and its attribute list is non-empty, for every input text
C19_NonEmpty ==
  result = "ok" =>
    /\ relation_name # None
    /\ relation_name[1] # <<>>
    /\ attributes # <<>>

\* a Dataset is returned for the relation line @RELATION '', whose name
\* is the two quote characters
C19_Witness ==
  /\ result = "ok"
  /\ input.family = "relation"
  /\ input.name = <<" ", "'", "'">>
  /\ relation_name = Some(<<"'", "'">>)

(***************************************************************************)
(* The three makers of attributes together: the parser on an attribute     *)
(* definition, from_dataframe, and the writer's inference on a raw table.  *)
(***************************************************************************)
InitSchema == InitAttr \/ InitFrom \/ InitInfer

NextSchema == ReadNext \/ EndOfText \/ Call_from_dataframe \/ write_string

SpecSchema == InitSchema /\ [][NextSchema]_vars

(***************************************************************************)
(* Claims about the attributes made, checked under SpecSchema.             *)
(***************************************************************************)
\* nominal_values is present exactly on a Nominal attribute, date_format
\* only on a Date attribute
WellFormed(attr) ==
  /\ attr.nominal_values # None <=> attr.type = "NOMINAL"
  /\ attr.date_format # None => attr.type = "DATE"

AllWellFormed(attrs) == \A i \in 1..Len(attrs) : WellFormed(attrs[i])

\* the writer has written the raw table it was given
InferredFor == input.family = "write" /\ Given.class = "DataFrame" /\ written = "ok"

\* C20: in every Dataset returned by the parser, by from_dataframe and by
\* the writer's schema inference, each attribute has nominal_values present
\* if and only if its kind is Nominal, and has a date_format present only
\* if its kind is Date
C20_AttributeFields ==
  /\ result = "ok" => AllWellFormed(attributes)
  /\ HasReturned => AllWellFormed(Returned.attributes)
  /\ InferredFor => AllWellFormed(_infer_attributes(Given.data, input.nominal_threshold))

\* from_dataframe has returned a Nominal attribute whose list of values is
\* present and empty
C20_Witness ==
  /\ HasReturned
  /\ \E i \in 1..Len(Returned.attributes) :
       /\ Returned.attributes[i].type = "NOMINAL"
       /\ Returned.attributes[i].nominal_values = Some(<<>>)

(***************************************************************************)
(* Whole texts with lines that look like directives after @DATA, and lines *)
(* that are no directive before it.                                        *)
(***************************************************************************)
\* lines the header does not know: junk, x,y, {0 x} and a quoted text
UnknownLines == {<<"j","u","n","k">>, <<"x",",","y">>, <<"{","0"," ","x","}">>, <<"'","a","'"," ","S","T","R","I","N","G">>, <<" ","j","u","n","k"," ">>}

\* the @DATA line: bare, in lower case, followed by whitespace
DataMarks == {KwData, <<"@","d","a","t","a">>, <<"@","D","a","t","a"," "," ">>}

\* lines after @DATA: directives, a row, a row too long, a comment, a blank
SectionLines ==
  {<<"@","R","E","L","A","T","I","O","N"," ","q">>, <<"@","A","T","T","R","I","B","U","T","E"," ","b"," ","S","T","R","I","N","G">>, KwData, <<"@","F","O","O">>, <<"x">>, <<"x",",","y">>, <<"%"," ","c">>, <<>>}

\* one or two lines after @DATA
SectionTails ==
  {<<l>> : l \in SectionLines} \cup {<<l, k>> : l \in SectionLines, k \in SectionLines}

SectionInputs ==
  {[family |-> "section",
    lines |-> <<RelationLine>> \o pre \o <<AttrLine(AttrNames[1], W_STRING), d>> \o t] :
     pre \in {<<>>} \cup {<<l>> : l \in UnknownLines}, d \in DataMarks, t \in SectionTails}

InitSections ==
  /\ ParserInit
  /\ NoDataset
  /\ NoWriter
  /\ input \in SectionInputs
  /\ text = input.lines

\* ArffParser.parse on a text with a header, @DATA and one or two lines
SpecSections == InitSections /\ [][NextText]_vars

(***************************************************************************)
(* Claims about the two states of the parser, checked under SpecSections.  *)
(***************************************************************************)
\* the step reads a physical line
ReadsLine == line_number' = line_number + 1

\* the line the step reads, stripped
LineRead == Strip(text[line_number'])

\* the line read is neither blank nor a comment
Meaningful == LineRead # <<>> /\ ~MatchComment(LineRead)

\* C25: the parser starts in the Header state, moves to the Data state only
\* on a @DATA line and never moves back: after @DATA every non-blank,
\* non-comment line, also one that looks like @RELATION, @ATTRIBUTE or
\* @DATA, is parsed as a data row and changes neither the relation name nor
\* the attribute list
C25_NoWayBack ==
  [][/\ (ReadsLine /\ ~in_data_section /\ in_data_section') => Upper(LineRead) = KwData
     /\ in_data_section =>
          /\ in_data_section'
          /\ relation_name' = relation_name
          /\ attributes' = attributes
     /\ (ReadsLine /\ in_data_section /\ Meaningful) =>
          IF _parse_data_row(LineRead, Len(attributes)).ok
          THEN data_rows' = Append(data_rows, _parse_data_row(LineRead, Len(attributes)).val)
          ELSE result' = "ArffParseError" /\ data_rows' = data_rows]_vars

\* the line @ATTRIBUTE b STRING after @DATA has become a data row
C25_Witness ==
  /\ input.family = "section"
  /\ in_data_section
  /\ Len(attributes) = 1
  /\ data_rows # <<>>
  /\ data_rows[Len(data_rows)] = <<<<"@","A","T","T","R","I","B","U","T","E"," ","b"," ","S","T","R","I","N","G">>>>

\* C29: in the Header state a non-blank line that is no comment, no
\* @RELATION, @ATTRIBUTE or @DATA directive and does not begin with @ is
\* skipped without error: it changes neither the relation name, the
\* attribute list, the comments, the rows nor the parser state
C29_HeaderSkip ==
  [][(/\ ReadsLine
      /\ ~in_data_section
      /\ Meaningful
      /\ Head(LineRead) # "@") =>
        /\ UNCHANGED <<relation_name, attributes, comments, data_rows, in_data_section>>
        /\ result' = "running"
        /\ error' = NoError]_vars

\* the line x,y was read in the header and the parse went on to return
C29_Witness ==
  /\ input.family = "section"
  /\ text[2] = <<"x",",","y">>
  /\ result = "ok"
  /\ Len(attributes) = 1

(***************************************************************************)
(* Whole texts of one nominal column whose rows hold declared values,      *)
(* other values, and values quoted with whitespace inside the quotes.      *)
(***************************************************************************)
\* the declared value lists: x, y   y, x, z   y   and x twice
DomainLists == {<<<<"x">>, <<"y">>>>, <<<<"y">>, <<"x">>, <<"z">>>>, <<<<"y">>>>, <<<<"x">>, <<"x">>>>}

\* the data tokens: x  y  z  ' x'  "y "  and w
DomainTokens == {<<"x">>, <<"y">>, <<"z">>, <<"'"," ","x","'">>, <<"\"","y"," ","\"">>, <<"w">>}

DomainInputs ==
  {[family |-> "domain", declared |-> d, rows |-> rs] :
     d \in DomainLists, rs \in RowLists(DomainTokens)}

InitDomain ==
  /\ ParserInit
  /\ NoDataset
  /\ NoWriter
  /\ input \in DomainInputs
  /\ text = CoerceText(input)

\* ArffParser.parse on one nominal column and one or two data rows
SpecDomain == InitDomain /\ [][NextText]_vars

(***************************************************************************)
(* Claims about undeclared nominal values, checked under SpecDomain.       *)
(***************************************************************************)
\* the value the parsed column holds in row r
ParsedAt(r) == data[1].values[r]

C26_MarkerText ==
  (input.family = "roundtrip" /\ Done) =>
    \A a \in 1..Len(Given.data) : \A r \in 1..Len(Given.data[a].values) :
      /\ (/\ Given.attributes[a].type \in {"STRING", "NOMINAL"}
          /\ Given.data[a].values[r] = Str(missing_value)) =>
            /\ result = "ok"
            /\ data[a].values[r] = Str(missing_value)
      /\ _format_value(Given.data[a].values[r], Given.attributes[a]) = missing_value =>
            isna(Given.data[a].values[r])

\* from_dataframe was called without override lists
NoOverrides ==
  /\ input.family = "from"
  /\ input.nominal_columns = None
  /\ input.string_columns = None
  /\ input.date_columns = None

\* C27: with no override lists and no nominal threshold, from_dataframe and
\* the writer's own schema inference give every column the same attribute
\* kind, nominal values and date format, for every dtype class (categorical,
\* datetime, complex, boolean, integer, other numeric, textual)
C27_SameSchema ==
  (NoOverrides /\ HasReturned) => Returned.attributes = _infer_attributes(input.df, None)

(***************************************************************************)
(* One ArffParser or one ArffWriter used for several calls in a row.       *)
(***************************************************************************)
\* a parse_string call: the lines of its text
ParseCall(lines) ==
  [text |-> lines, data |-> DataFrame(<<>>), relation_name |-> None, comments |-> None]

\* a write_string call: its arguments
WriteCall(d, name, comment_list) ==
  [text |-> <<>>, data |-> d, relation_name |-> name, comments |-> comment_list]

\* texts that parse, with rows, comments and two attributes, and texts that
\* fail: an unknown directive, a row too long, no relation, no attribute
ParseCalls ==
  {ParseCall(<<RelationLine, AttrLine(AttrNames[1], W_NUMERIC), KwData, <<"1">>>>),
   ParseCall(<<<<"%"," ","c">>, RelationLine, AttrLine(AttrNames[1], W_STRING),
               AttrLine(AttrNames[2], <<"{","x",","," ","y","}">>), KwData, <<"z",",","y">>>>),
   ParseCall(<<RelationLine, AttrLine(AttrNames[1], W_STRING), <<"@","F","O","O"," ","x">>>>),
   ParseCall(<<RelationLine, AttrLine(AttrNames[1], W_STRING), KwData, <<"x",",","y">>>>),
   ParseCall(<<AttrLine(AttrNames[1], W_STRING), KwData, <<"x">>>>),
   ParseCall(<<RelationLine, KwData>>)}

\* write calls that return, on a raw table and on a Dataset, and one that
\* fails: a raw table without relation name
WriteCalls ==
  {WriteCall(DataFrame(<<MixedObject>>), Some(<<"r">>), Some(<<<<"c">>>>)),
   WriteCall(DataFrame(<<CategoryColumn>>), Some(<<"r"," ","s">>), None),
   WriteCall(DataFrame(<<MixedObject>>), None, None),
   WriteCall(Dataset(<<"r">>, <<"STRING">>, <<<<Str(<<"a"," ","b">>), Str(<<"?">>)>>>>), None, None)}

\* one to n calls drawn from a set
CallLists(S, n) == UNION {[1..k -> S] : k \in 1..n}

\* the instance is used for the calls in turn; at is the call under way, and
\* outcomes holds what every earlier call ended with
Reuse(family, calls, threshold) ==
  [family |-> family, method |-> "write_string", calls |-> calls, at |-> 1,
   outcomes |-> <<>>, data |-> calls[1].data, relation_name |-> calls[1].relation_name,
   comments |-> calls[1].comments, nominal_threshold |-> threshold,
   before |-> None, os_error |-> FALSE]

\* the most calls made on one instance
MaxCalls == 3

ReuseInputs ==
  {Reuse("reuse", calls, None) : calls \in CallLists(ParseCalls, MaxCalls)}
    \cup {Reuse("write", calls, th) :
            calls \in CallLists(WriteCalls, MaxCalls), th \in {None, Some(2)}}

\* what a call ended with: the exception or the Dataset of a parse, the
\* exception or the text of a write
Outcome ==
  [result |-> result, relation_name |-> relation_name, attributes |-> attributes,
   data |-> data, comments |-> comments, error |-> error,
   written |-> written, file |-> file]

\* the call under way has returned or raised
CallEnded == IF input.family = "write" THEN written # "idle" ELSE result # "running"

\* the next call with the attribute list kept from the call before, as if it
\* were a field of the instance
NextCallKeepsAttributes ==
  /\ "calls" \in DOMAIN input
  /\ CallEnded
  /\ input.at < Len(input.calls)
  /\ input' = [input EXCEPT !.at = @ + 1,
                            !.outcomes = Append(@, Outcome),
                            !.data = input.calls[input.at + 1].data,
                            !.relation_name = input.calls[input.at + 1].relation_name,
                            !.comments = input.calls[input.at + 1].comments]
  /\ text' = input.calls[input.at + 1].text
  /\ relation_name' = None
  /\ attributes' = attributes
  /\ data_rows' = <<>>
  /\ comments' = <<>>
  /\ in_data_section' = FALSE
  /\ line_number' = 0
  /\ result' = "running"
  /\ error' = NoError
  /\ data' = <<>>
  /\ file' = None
  /\ written' = "idle"
  /\ UNCHANGED arff_data

\* the next call on the same instance: parse starts from its own new locals
\* (parser.py 190-195), write_string from its own new buffer (writer.py
\* 106); the fields of the instance stay as __init__ left them
NextCall ==
  /\ "calls" \in DOMAIN input
  /\ CallEnded
  /\ input.at < Len(input.calls)
  /\ input' = [input EXCEPT !.at = @ + 1,
                            !.outcomes = Append(@, Outcome),
                            !.data = input.calls[input.at + 1].data,
                            !.relation_name = input.calls[input.at + 1].relation_name,
                            !.comments = input.calls[input.at + 1].comments]
  /\ text' = input.calls[input.at + 1].text
  /\ relation_name' = None
  /\ attributes' = <<>>
  /\ data_rows' = <<>>
  /\ comments' = <<>>
  /\ in_data_section' = FALSE
  /\ line_number' = 0
  /\ result' = "running"
  /\ error' = NoError
  /\ data' = <<>>
  /\ file' = None
  /\ written' = "idle"
  /\ UNCHANGED arff_data

InitReuse ==
  /\ ParserInit
  /\ NoDataset
  /\ NoWriter
  /\ input \in ReuseInputs
  /\ text = input.calls[1].text

NextReuse == ReadNext \/ EndOfText \/ write_string \/ NextCall

\* calls in a row on one ArffParser, or on one ArffWriter
SpecReuse == InitReuse /\ [][NextReuse]_vars

(***************************************************************************)
(* Claims about reused instances, checked under SpecReuse.                 *)
(***************************************************************************)
\* the outcomes of the calls that have ended, in call order
Outcomes == IF CallEnded THEN Append(input.outcomes, Outcome) ELSE input.outcomes

\* C21: for any sequence of parse or write calls on one instance, failing
\* calls included, each call's outcome equals the outcome of the same call
\* on a freshly constructed instance with the same configuration (the first
\* call of a sequence is made on a fresh instance), and no call changes the
\* instance's configuration
C21_Stateless ==
  /\ [](\A i, j \in 1..Len(Outcomes) :
          input.calls[i] = input.calls[j] => Outcomes[i] = Outcomes[j])
  /\ [][input'.nominal_threshold = input.nominal_threshold]_vars

\* a call that returned a Dataset was repeated after a call that failed, and
\* returned it again
C21_Witness ==
  /\ input.family = "reuse"
  /\ Len(Outcomes) = 3
  /\ input.calls[1] = input.calls[3]
  /\ Outcomes[2].result = "ArffParseError"
  /\ Outcomes[3].result = "ok"
  /\ Outcomes[3].attributes # <<>>

(***************************************************************************)
(* converter.py: ArffConverter._normalize_unnamed_columns.                 *)
(***************************************************************************)
Unnamed == <<"U","n","n","a","m","e","d">>

\* str.isdigit()
isdigit(s) == s # <<>> /\ \A i \in 1..Len(s) : IsDigit(s[i])

\* str(idx) of a column index
IndexStr(idx) == <<Digits[idx + 1]>>

\* col.split(":")[1] when the name has a colon: the text between the first
\* colon and the second, or the end
AfterColon(col) ==
  IF Contains(From(col, Find(col, ":", 0) + 1), ":")
  THEN SubSeq(From(col, Find(col, ":", 0) + 1), 1,
              Find(From(col, Find(col, ":", 0) + 1), ":", 0))
  ELSE From(col, Find(col, ":", 0) + 1)

\* the loop body with the suffix always taken from the column index
NormalNameByIndex(col, idx) ==
  IF StartsWith(col, Unnamed) THEN Unnamed \o <<"_">> \o IndexStr(idx) ELSE col

\* the loop body of _normalize_unnamed_columns: the new name of column col
\* at index idx
NormalName(col, idx) ==
  IF StartsWith(col, Unnamed)
  THEN Unnamed \o <<"_">>
         \o (IF Contains(col, ":") /\ isdigit(Strip(AfterColon(col)))
             THEN Strip(AfterColon(col))
             ELSE IndexStr(idx))
  ELSE col

\* ArffConverter._normalize_unnamed_columns
_normalize_unnamed_columns(df) ==
  [a \in 1..Len(df) |-> [df[a] EXCEPT !.name = NormalName(df[a].name, a - 1)]]

\* one more pass of _normalize_unnamed_columns over the table it returned
\* last (over the table given, the first time)
Call_normalize_unnamed_columns ==
  /\ input.family = "normalize"
  /\ Len(arff_data) < 2
  /\ arff_data' = Append(arff_data,
                         DataFrame(_normalize_unnamed_columns(
                           IF arff_data = <<>> THEN input.df
                           ELSE arff_data[Len(arff_data)].data)))
  /\ UNCHANGED <<parserVars, text, input, file, written>>

\* the column names read_csv gives: names of the header, the placeholders
\* Unnamed: <n> of columns without a name, and header names that begin
\* like a placeholder
ColumnNames ==
  {<<"a">>, <<"U","n","n","a","m","e","d",":"," ","0">>, <<"U","n","n","a","m","e","d",":"," ","1">>, <<"U","n","n","a","m","e","d",":"," ","2">>, <<"U","n","n","a","m","e","d">>, <<"U","n","n","a","m","e","d","_","x">>, <<"U","n","n","a","m","e","d",":"," ","0",".","1">>}

\* the tables of one to three columns with different names
NamedFrames ==
  {[a \in 1..Len(names) |-> Column(names[a], "object", None, <<Str(<<"x">>)>>)] :
     names \in {ns \in UNION {[1..k -> ColumnNames] : k \in 1..3} : Unique(ns)}}

NormalizeInputs == {[family |-> "normalize", df |-> df] : df \in NamedFrames}

InitNormalize ==
  /\ ParserInit
  /\ NoWriter
  /\ NoDataset
  /\ text = <<>>
  /\ input \in NormalizeInputs

\* _normalize_unnamed_columns applied to a table, then to its own result
SpecNormalize == InitNormalize /\ [][Call_normalize_unnamed_columns]_vars

(***************************************************************************)
(* Claims about column-name normalisation, checked under SpecNormalize.    *)
(***************************************************************************)
\* the name is a placeholder of headerless-column detection: Unnamed: <n>
IsPlaceholder(col) ==
  /\ StartsWith(col, <<"U","n","n","a","m","e","d",":"," ">>)
  /\ isdigit(From(col, Len(<<"U","n","n","a","m","e","d",":"," ">>)))

\* the names of a table
NamesOf(df) == [a \in 1..Len(df) |-> df[a].name]

Aligned(df) ==
  \A a \in 1..Len(df) :
    StartsWith(df[a].name, Unnamed) =>
      ~(Contains(df[a].name, ":") /\ isdigit(Strip(AfterColon(df[a].name))))
        \/ Strip(AfterColon(df[a].name)) = IndexStr(a - 1)

RECURSIVE KeepNames(_, _)
\* [col for col in names if col in columns]
KeepNames(names, columns) ==
  IF names = <<>> THEN <<>>
  ELSE (IF Member(Head(names), columns) THEN <<Head(names)>> ELSE <<>>)
         \o KeepNames(Tail(names), columns)

RECURSIVE KeepItems(_, _)
\* {col: fmt for col, fmt in dict.items() if col in columns}
KeepItems(dict, columns) ==
  IF dict = <<>> THEN <<>>
  ELSE (IF Member(Head(dict)[1], columns) THEN <<Head(dict)>> ELSE <<>>)
         \o KeepItems(Tail(dict), columns)

RECURSIVE Drop(_, _)
\* df.drop(columns=names)
Drop(df, names) ==
  IF df = <<>> THEN <<>>
  ELSE (IF Member(Head(df).name, names) THEN <<>> ELSE <<Head(df)>>) \o Drop(Tail(df), names)

\* the column names of a table
Columns(df) == [a \in 1..Len(df) |-> df[a].name]

\* _apply_column_filters with the hints aligned with the columns of the
\* table before the exclusion
_apply_column_filters_unfiltered(df, exclude_columns, nominal_columns, string_columns, date_columns) ==
  IF \E i \in 1..Len(OrEmpty(exclude_columns)) :
       ~Member(OrEmpty(exclude_columns)[i], Columns(df))
  THEN [ok |-> FALSE, df |-> <<>>, nominal |-> <<>>, string |-> <<>>, dates |-> <<>>]
  ELSE [ok |-> TRUE,
        df |-> Drop(df, OrEmpty(exclude_columns)),
        nominal |-> KeepNames(OrEmpty(nominal_columns), Columns(df)),
        string |-> KeepNames(OrEmpty(string_columns), Columns(df)),
        dates |-> KeepItems(OrEmpty(date_columns), Columns(df))]

\* ArffConverter._apply_column_filters: ok is FALSE for CsvParseError
_apply_column_filters(df, exclude_columns, nominal_columns, string_columns, date_columns) ==
  IF \E i \in 1..Len(OrEmpty(exclude_columns)) :
       ~Member(OrEmpty(exclude_columns)[i], Columns(df))
  THEN [ok |-> FALSE, df |-> <<>>, nominal |-> <<>>, string |-> <<>>, dates |-> <<>>]
  ELSE [ok |-> TRUE,
        df |-> Drop(df, OrEmpty(exclude_columns)),
        nominal |-> KeepNames(OrEmpty(nominal_columns),
                              Columns(Drop(df, OrEmpty(exclude_columns)))),
        string |-> KeepNames(OrEmpty(string_columns),
                             Columns(Drop(df, OrEmpty(exclude_columns)))),
        dates |-> KeepItems(OrEmpty(date_columns),
                            Columns(Drop(df, OrEmpty(exclude_columns))))]

\* ArffConverter._validate_column_alignment on the widths of the lines of
\* the source (the header first): TRUE when it raises CsvParseError
MisAligned(widths) ==
  /\ widths # <<>>
  /\ widths[1] # 0
  /\ \E i \in 2..Len(widths) : widths[i] # widths[1]

\* the hints csv_to_arff hands to from_dataframe
Filtered(in) ==
  _apply_column_filters(_normalize_unnamed_columns(in.source.df), in.exclude_columns,
                        in.nominal_columns, in.string_columns, in.date_columns)

\* csv_to_arff up to the write step (converter.py 185-226): the exception
\* raised, or "" and the ArffData to write
Converted_csv(in) ==
  IF ~in.source.exists THEN [raised |-> "FileNotFoundError", arff |-> <<>>]
  ELSE IF ~in.source.readable THEN [raised |-> "CsvParseError", arff |-> <<>>]
  ELSE IF MisAligned(in.source.widths) THEN [raised |-> "CsvParseError", arff |-> <<>>]
  ELSE IF ~Filtered(in).ok THEN [raised |-> "CsvParseError", arff |-> <<>>]
  ELSE LET made == from_dataframe(Filtered(in).df,
                                  IF in.relation_name = None THEN in.source.stem
                                  ELSE in.relation_name[1],
                                  Some(Filtered(in).nominal), Some(Filtered(in).string),
                                  Some(Filtered(in).dates))
       IN IF made.class # "ArffData" THEN [raised |-> made.class, arff |-> <<>>]
          ELSE [raised |-> "",
                arff |-> IF OrEmpty(in.comments) # <<>>
                         THEN [made EXCEPT !.comments = in.comments[1]]
                         ELSE made]

\* csv_to_arff opening the destination before it reads the source
csv_to_arff_opens_first ==
  /\ input.family = "convert"
  /\ written = "idle"
  /\ IF input.os_error
     THEN /\ written' = "ArffWriteError"
          /\ UNCHANGED <<file, arff_data>>
     ELSE IF Converted_csv(input).raised # ""
     THEN /\ written' = Converted_csv(input).raised
          /\ file' = Some(<<>>)
          /\ UNCHANGED arff_data
     ELSE /\ file' = Some(_write_arff_data(Converted_csv(input).arff))
          /\ written' = "ok"
          /\ arff_data' = Some(Converted_csv(input).arff)
  /\ UNCHANGED <<parserVars, text, input>>

\* ArffConverter.csv_to_arff: written is the exception raised or "ok", file
\* the destination, arff_data the ArffData returned
csv_to_arff ==
  /\ input.family = "convert"
  /\ written = "idle"
  /\ IF Converted_csv(input).raised # ""
     THEN /\ written' = Converted_csv(input).raised
          /\ UNCHANGED <<file, arff_data>>
     ELSE IF input.os_error
     THEN /\ written' = "ArffWriteError"
          /\ UNCHANGED <<file, arff_data>>
     ELSE /\ file' = Some(_write_arff_data(Converted_csv(input).arff))
          /\ written' = "ok"
          /\ arff_data' = Some(Converted_csv(input).arff)
  /\ UNCHANGED <<parserVars, text, input>>

\* the tables read_csv gives: a and b; a placeholder, a and b; a float
\* column that holds inf, and b
SourceFrames ==
  {<<Column(<<"a">>, "float64", None, <<Num(<<"1",".","5">>), Num(<<"2">>)>>),
     Column(<<"b">>, "object", None, <<Str(<<"x">>), Str(<<"y">>)>>)>>,
   <<Column(<<"U","n","n","a","m","e","d",":"," ","0">>, "int64", None, <<IntCell(<<"1">>), IntCell(<<"2">>)>>),
     Column(<<"a">>, "int64", None, <<IntCell(<<"2">>), IntCell(<<"2">>)>>),
     Column(<<"b">>, "object", None, <<Str(<<"x">>), NaN>>)>>,
   <<Column(<<"a">>, "float64", None, <<Num(<<"1",".","5">>), Num(Infinity)>>),
     Column(<<"b">>, "object", None, <<Str(<<"x">>), Str(<<"y">>)>>)>>}

\* a source that is missing, that read_csv cannot read, that has a short
\* row, and sources that are sound
Sources ==
  {[exists |-> FALSE, readable |-> FALSE, widths |-> <<>>, df |-> <<>>, stem |-> <<"s">>],
   [exists |-> TRUE, readable |-> FALSE, widths |-> <<2, 3>>, df |-> <<>>, stem |-> <<"s">>]}
    \cup {[exists |-> TRUE, readable |-> TRUE, widths |-> <<Len(df), Len(df) - 1, Len(df)>>,
           df |-> df, stem |-> <<"s">>] : df \in SourceFrames}
    \cup {[exists |-> TRUE, readable |-> TRUE, widths |-> <<Len(df), Len(df), Len(df)>>,
           df |-> df, stem |-> <<"s">>] : df \in SourceFrames}

\* exclusions: none, a, a column that is absent, b and a
Exclusions == {None, Some(<<<<"a">>>>), Some(<<<<"z">>>>), Some(<<<<"b">>, <<"a">>>>)}

\* hints: none, one column, two columns in an order that is not the table's
HintLists == {None, Some(<<<<"a">>>>), Some(<<<<"b">>, <<"a">>>>), Some(<<<<"b">>, <<"z">>, <<"U","n","n","a","m","e","d","_","0">>>>)}

ConvertInputs ==
  {[family |-> "convert", source |-> s, relation_name |-> None, comments |-> None,
    exclude_columns |-> e, nominal_columns |-> n, string_columns |-> st,
    date_columns |-> d, before |-> b, os_error |-> o] :
     s \in Sources, e \in Exclusions, n \in HintLists, st \in {None, Some(<<<<"b">>>>)},
     d \in {None, Some(<<<<<<"a">>, DayFormat>>, <<<<"b">>, DayFormat>>>>)},
     b \in {None, Some(<<"o","l","d">>)}, o \in BOOLEAN}

InitConvert ==
  /\ ParserInit
  /\ NoDataset
  /\ text = <<>>
  /\ input \in ConvertInputs
  /\ file = input.before
  /\ written = "idle"

\* one call of csv_to_arff
SpecConvert == InitConvert /\ [][csv_to_arff]_vars

(***************************************************************************)
(* Claims about the converter, checked under SpecConvert.                  *)
(***************************************************************************)
\* the source is there, is read, and its rows are as wide as its header
SoundSource ==
  /\ input.source.exists
  /\ input.source.readable
  /\ ~MisAligned(input.source.widths)

\* the column names of the source, normalised
SourceColumns == Columns(_normalize_unnamed_columns(input.source.df))

\* the names of a list, as a set
Names(list) == {list[i] : i \in 1..Len(list)}

\* the columns that remain after the exclusion, in table order
Remaining ==
  SelectSeq(SourceColumns, LAMBDA c : c \notin Names(OrEmpty(input.exclude_columns)))

\* an exclusion names a column that the source does not have
ExcludesAbsent == ~(Names(OrEmpty(input.exclude_columns)) \subseteq Names(SourceColumns))

\* C22: column exclusion is applied before the type hints are aligned: an
\* exclusion that names a column absent from the source fails with
\* CsvParseError and nothing is converted, while a nominal, string or date
\* hint that names a column no longer present after exclusion is dropped
\* without error and the remaining hints are kept unchanged and in order
C22_ExcludeThenAlign ==
  (input.family = "convert" /\ written # "idle" /\ SoundSource) =>
    IF ExcludesAbsent
    THEN /\ written = "CsvParseError"
         /\ arff_data = None
         /\ file = input.before
    ELSE /\ written # "CsvParseError"
         /\ Filtered(input).nominal =
              SelectSeq(OrEmpty(input.nominal_columns), LAMBDA h : h \in Names(Remaining))
         /\ Filtered(input).string =
              SelectSeq(OrEmpty(input.string_columns), LAMBDA h : h \in Names(Remaining))
         /\ Filtered(input).dates =
              SelectSeq(OrEmpty(input.date_columns), LAMBDA h : h[1] \in Names(Remaining))
         /\ written = "ok" => Columns(Returned.data) = Remaining

\* a is excluded, the hints name b and a: the hint a is dropped, b is kept
\* and the conversion returns
C22_Witness ==
  /\ input.family = "convert"
  /\ written = "ok"
  /\ input.exclude_columns = Some(<<<<"a">>>>)
  /\ input.nominal_columns = Some(<<<<"b">>, <<"a">>>>)
  /\ Filtered(input).nominal = <<<<"b">>>>
  /\ Columns(Returned.data) = <<<<"b">>>>

\* C30: if csv_to_arff fails at any step before the write step (source
\* missing, text unreadable, a row with a field count different from the
\* header, an exclusion naming an absent column), the destination is
\* neither created nor modified
C30_DestinationUntouched ==
  (input.family = "convert" /\ written \notin {"idle", "ok"}
     /\ Converted_csv(input).raised # "") =>
    /\ written = Converted_csv(input).raised
    /\ file = input.before
    /\ arff_data = None

\* the conversion failed on an absent exclusion and the destination still
\* holds what it held
C30_Witness ==
  /\ input.family = "convert"
  /\ written = "CsvParseError"
  /\ SoundSource
  /\ ExcludesAbsent
  /\ input.before = Some(<<"o","l","d">>)
  /\ file = Some(<<"o","l","d">>)

(***************************************************************************)
(* The command line (cli.py): one command is run on its parsed arguments;  *)
(* written is what the command gives its caller, "exit 0" or "exit 1" for  *)
(* a returned code, the class of the exception for one that escapes.       *)
(***************************************************************************)
\* str.lower() on one character
LowerChar(c) ==
  IF \E i \in 1..26 : UpperLetters[i] = c
  THEN LowerLetters[CHOOSE i \in 1..26 : UpperLetters[i] = c]
  ELSE c

\* str.lower()
Lower(s) == [i \in 1..Len(s) |-> LowerChar(s[i])]

\* cli.py 30-38
BINARY_VALUES ==
  {{<<"0">>, <<"1">>}, {<<"y","e","s">>, <<"n","o">>}, {<<"t","r","u","e">>, <<"f","a","l","s","e">>}, {<<"t">>, <<"f">>}, {<<"y">>, <<"n">>},
   {<<"s","i">>, <<"n","o">>}, {<<"s", "í">>, <<"n","o">>}}

\* the column names analyze_column takes for a class column (cli.py 290)
TargetNames == {<<"c","l","a","s","s">>, <<"t","a","r","g","e","t">>, <<"l","a","b","e","l">>, <<"y">>, <<"c","l","a","s","e">>, <<"e","t","i","q","u","e","t","a">>}

\* series.dropna()
dropna(cells) == SelectSeq(cells, LAMBDA x : ~isna(x))

\* all(v == int(v) for v in non_null if pd.notna(v)) of cli.py 302: the
\* generator stops at the first value that is not whole, and int(v) raises
\* OverflowError on an infinite one
RECURSIVE AllWhole(_)
AllWhole(cells) ==
  IF cells = <<>> THEN "True"
  ELSE IF Overflows(Head(cells)) THEN "OverflowError"
  ELSE IF ~IsInt(Head(cells).v) THEN "False"
  ELSE AllWhole(Tail(cells))

\* {str(v).lower().strip() for v in non_null.unique()}
normalized_unique(col) ==
  {Strip(Lower(str(unique(col.values, <<>>)[i]))) : i \in 1..nunique(col.values)}

RECURSIVE SumLen(_)
SumLen(cells) == IF cells = <<>> THEN 0 ELSE Len(str(Head(cells))) + SumLen(Tail(cells))

\* analyze_column (cli.py 237-342): the exception it raises, or "" and the
\* type it suggests
analyze_column(col, nominal_threshold) ==
  LET non_null == dropna(col.values)
      unique_count == nunique(col.values)
      Suggest(t) == [raised |-> "", suggested_type |-> t]
  IN IF /\ Len(non_null) > 0
        /\ Cardinality(normalized_unique(col)) <= 2
        /\ \E binary_set \in BINARY_VALUES : normalized_unique(col) \subseteq binary_set
     THEN Suggest("NOMINAL")
     ELSE IF Lower(col.name) \in TargetNames
     THEN Suggest("NOMINAL")
     ELSE IF is_numeric_dtype(col.dtype)
     THEN IF is_integer_dtype(col.dtype)
          THEN (IF unique_count <= nominal_threshold THEN Suggest("NOMINAL")
                ELSE Suggest("INTEGER"))
          ELSE IF col.dtype = "float64" /\ AllWhole(non_null) = "OverflowError"
          THEN [raised |-> "OverflowError", suggested_type |-> ""]
          ELSE IF col.dtype = "float64" /\ AllWhole(non_null) = "True"
                  /\ unique_count <= nominal_threshold
          THEN Suggest("NOMINAL")
          ELSE Suggest("NUMERIC")
     ELSE IF col.dtype = "object"
     THEN IF Len(non_null) > 0 /\ SumLen(non_null) > 50 * Len(non_null)
          THEN Suggest("STRING")
          ELSE IF unique_count <= nominal_threshold THEN Suggest("NOMINAL")
          ELSE Suggest("STRING")
     ELSE Suggest("STRING")

\* the for loop of cli.py 380-387: the first exception an analysis raises
RECURSIVE Analyses(_, _)
Analyses(columns, nominal_threshold) ==
  IF columns = <<>> THEN ""
  ELSE IF analyze_column(Head(columns), nominal_threshold).raised # ""
  THEN analyze_column(Head(columns), nominal_threshold).raised
  ELSE Analyses(Tail(columns), nominal_threshold)

\* cmd_analyze_csv (cli.py 344-470): read_csv alone stands in a try
cmd_analyze_csv(args) ==
  IF ~args.source.readable THEN "exit 1"
  ELSE IF Analyses(_normalize_unnamed_columns(args.source.df), args.nominal_threshold) # ""
  THEN Analyses(_normalize_unnamed_columns(args.source.df), args.nominal_threshold)
  ELSE "exit 0"

\* the exception classes of the package, all of them ArffCsvError
ArffCsvErrors ==
  {"ArffParseError", "ArffWriteError", "CsvParseError", "InvalidAttributeError",
   "MissingDataError"}

\* try: ... return 0 / except ArffCsvError: return 1 / except Exception:
\* return 1, on the exception the body raises ("" for none)
TryExit(raised) ==
  IF raised = "" THEN "exit 0"
  ELSE IF raised \in ArffCsvErrors THEN "exit 1"
  ELSE "exit 1"

\* cmd_csv2arff (cli.py 500-550)
cmd_csv2arff ==
  /\ input.family = "cli"
  /\ input.command = "csv2arff"
  /\ written = "idle"
  /\ IF ~input.source.exists
     THEN /\ written' = "exit 1"
          /\ UNCHANGED <<file, arff_data>>
     ELSE IF input.analyze
     THEN /\ written' = IF input.nominal_columns # None \/ input.string_columns # None
                        THEN "exit 1"
                        ELSE cmd_analyze_csv(input)
          /\ UNCHANGED <<file, arff_data>>
     ELSE IF ~input.output
     THEN /\ written' = "exit 1"
          /\ UNCHANGED <<file, arff_data>>
     ELSE IF Converted_csv(input).raised # ""
     THEN /\ written' = TryExit(Converted_csv(input).raised)
          /\ UNCHANGED <<file, arff_data>>
     ELSE IF input.os_error
     THEN /\ written' = TryExit("ArffWriteError")
          /\ UNCHANGED <<file, arff_data>>
     ELSE /\ file' = Some(_write_arff_data(Converted_csv(input).arff))
          /\ written' = TryExit("")
          /\ arff_data' = Some(Converted_csv(input).arff)
  /\ UNCHANGED <<parserVars, text, input>>

\* cmd_arff2csv (cli.py 553-584): input.operation is what arff_to_csv does
\* on the input file, the exception it raises or the CSV text it writes
cmd_arff2csv ==
  /\ input.family = "cli"
  /\ input.command = "arff2csv"
  /\ written = "idle"
  /\ IF ~input.source.exists
     THEN /\ written' = "exit 1"
          /\ UNCHANGED file
     ELSE /\ written' = TryExit(input.operation.raised)
          /\ file' = IF input.operation.raised = "" THEN Some(input.operation.csv) ELSE file
  /\ UNCHANGED <<parserVars, text, input, arff_data>>

\* cmd_info (cli.py 587-640): input.operation is what parse_file and the
\* printing do on the input file
cmd_info ==
  /\ input.family = "cli"
  /\ input.command = "info"
  /\ written = "idle"
  /\ written' = IF ~input.source.exists THEN "exit 1"
                ELSE TryExit(input.operation.raised)
  /\ UNCHANGED <<parserVars, text, input, file, arff_data>>

\* the sources of the converter, and a table whose float column holds a
\* whole number and then inf
CliSources ==
  Sources \cup
    {[exists |-> TRUE, readable |-> TRUE, widths |-> <<2, 2, 2>>,
      df |-> <<Column(<<"a">>, "float64", None, <<Num(<<"2">>), Num(Infinity)>>),
               Column(<<"b">>, "object", None, <<Str(<<"x">>), Str(<<"y">>)>>)>>,
      stem |-> <<"s">>],
     [exists |-> TRUE, readable |-> TRUE, widths |-> <<2, 2, 2>>,
      df |-> <<Column(<<"a">>, "float64", None, <<Num(<<"2">>), Num(<<"3">>)>>),
               Column(<<"C","l","a","s","s">>, "object", None, <<Str(<<"Y","e","s">>), Str(<<"n","o"," ">>)>>)>>,
      stem |-> <<"s">>]}

\* what arff_to_csv and parse_file do: they end well, raise an exception of
\* the package, or raise another exception
Operations ==
  {[raised |-> "", csv |-> <<"a","\n","1","\n">>]}
    \cup {[raised |-> e, csv |-> <<>>] :
            e \in {"ArffParseError", "MissingDataError", "ArffWriteError",
                   "ValueError", "UnicodeDecodeError"}}

\* the parsed arguments of one command
CliInputs ==
  {[family |-> "cli", command |-> "csv2arff", analyze |-> an, output |-> out,
    source |-> s, relation_name |-> None, comments |-> None,
    exclude_columns |-> e, nominal_columns |-> n, string_columns |-> None,
    date_columns |-> None, before |-> None, os_error |-> o,
    nominal_threshold |-> th, operation |-> [raised |-> "", csv |-> <<>>]] :
     an \in BOOLEAN, out \in BOOLEAN, s \in CliSources, e \in Exclusions,
     n \in {None, Some(<<<<"a">>>>)}, o \in BOOLEAN, th \in {1, 10}}
    \cup
  {[family |-> "cli", command |-> c, analyze |-> FALSE, output |-> TRUE,
    source |-> [exists |-> ex, readable |-> TRUE, widths |-> <<>>, df |-> <<>>,
                stem |-> <<"s">>],
    relation_name |-> None, comments |-> None,
    exclude_columns |-> None, nominal_columns |-> None, string_columns |-> None,
    date_columns |-> None, before |-> None, os_error |-> FALSE,
    nominal_threshold |-> 10, operation |-> op] :
     c \in {"arff2csv", "info"}, ex \in BOOLEAN, op \in Operations}

InitCli ==
  /\ ParserInit
  /\ NoDataset
  /\ text = <<>>
  /\ input \in CliInputs
  /\ file = input.before
  /\ written = "idle"

NextCli == cmd_csv2arff \/ cmd_arff2csv \/ cmd_info

\* one command of the command line
SpecCli == InitCli /\ [][NextCli]_vars

(***************************************************************************)
(* Claims about the command line, checked under SpecCli.                   *)
(***************************************************************************)
\* the options of csv2arff conflict: --analyze with --nominal or --string,
\* or a conversion without an output file
OptionsConflict ==
  /\ input.command = "csv2arff"
  /\ \/ input.analyze /\ (input.nominal_columns # None \/ input.string_columns # None)
     \/ ~input.analyze /\ ~input.output

\* the exception the operation under the command raises, "" when it
\* completes
OperationRaises ==
  IF input.command # "csv2arff" THEN input.operation.raised
  ELSE IF input.analyze
  THEN (IF ~input.source.readable THEN "ParserError"
        ELSE Analyses(_normalize_unnamed_columns(input.source.df), input.nominal_threshold))
  ELSE IF Converted_csv(input).raised # "" THEN Converted_csv(input).raised
  ELSE IF input.os_error THEN "ArffWriteError"
  ELSE ""

\* the command has to fail: the input file is missing, the options
\* conflict, or the operation raises
MustFail == ~input.source.exists \/ OptionsConflict \/ OperationRaises # ""

\* C24: each of the three commands (csv2arff with its --analyze mode,
\* arff2csv, info) returns exit code 1 and lets no exception escape whenever
\* the input file is missing, the options conflict, or the operation raises a
\* typed or an untyped failure, and returns 0 only when the operation
\* completed
C24_ExitCodes ==
  (input.family = "cli" /\ written # "idle") =>
     /\ written \in {"exit 0", "exit 1"}
     /\ MustFail => written = "exit 1"
     /\ written = "exit 0" => ~MustFail

====
